---- MODULE Spec2Model ----
(***************************************************************************)
(* LAIM: a web front-end to a local Ollama server.                         *)
(*                                                                         *)
(* Two programs of the repository are modelled.                            *)
(*                                                                         *)
(*  Spec       src/main.go (sessions, chats, messages, the /api/chat       *)
(*             proxy) driven by the browser client src/newscript.js        *)
(*             (sendMessage) and by arbitrary HTTP requests.               *)
(*  SpecRelay  the streaming relays of the single-file servers             *)
(*             (src/unnamed/part_003 callChatAPI / callGenerateAPI,        *)
(*             src/unnamed/part_001 proxyStreamRequest) with the browser   *)
(*             reader of src/LAIM/static/app.js (streamResponse).          *)
(***************************************************************************)
EXTENDS Integers, Sequences, FiniteSets, TLC

\* ------------------------------------------------------------------ bounds
MaxChats == 1
MaxMsgs == 2
MaxClock == 1
MaxRecs == 3
MaxFiles == 1
MaxTurns == 3
MaxChunks == 2
MaxNow == 2
MaxSends == 2
MinuteTicks == 1

\* Who talks to the server: a browser tab running newscript.js, and another
\* HTTP client that sends single requests of any content.
Browsers == {1}
ApiClients == {2}
Clients == Browsers \cup ApiClients

\* -------------------------------------------------------- program constants
\* main.go:678  len(req.Content) > 50000
MaxContentLen == 50000
\* main.go:317, 331 / 502, 669, 877 / 979 / 990, 695
StatusOK == 200
StatusBadRequest == 400
StatusUnauthorized == 401
StatusInternalServerError == 500
StatusServiceUnavailable == 503
\* part_003:1332, 1408; part_001:271
StatusBadGateway == 502
\* a non-success status of the backend (Ollama: model not found)
StatusNotFound == 404
\* main.go:621; main.go:507, 633
StatusNoContent == 204
MaxTitleLen == 200
\* part_002:30-35
DefaultVRAMGB == 8
DefaultRAMGB == 16
MinVRAMGB == 1
MaxVRAMGB == 1024
MinRAMGB == 1
MaxRAMGB == 2048
RateLimit == 60
StatusTooManyRequests == 429

VARIABLES
    \* ---- src/main.go
    clock,      \* time.Now(), non-decreasing
    sessions,   \* the sessions table: set of session ids
    chats,      \* the chats table: chat id -> row
    messages,   \* the messages table in rowid (insertion) order
    srv,        \* per client: the handler goroutine serving its request
    bk,         \* per client: the backend request its /api/chat handler has open
    nextAcc,    \* number of append requests accepted so far: the next message id
    \* ---- src/newscript.js
    cli,        \* per client: state.sessionId, state.currentChatId, isGenerating, position
    turn,       \* per client: record of its current / last sendMessage turn
    \* ---- src/main.go, continued
    made,       \* number of chats created so far: the source of fresh chat ids
    files,      \* the files table: file id -> id of the message it is linked to
    live,       \* the keys of the map s.sessions of the running process
    log,        \* the lines handleMessages has written with log.Printf
    requests,   \* the map of s.rateLimiter: key -> count, resetTime
    \* ---- relays (part_003, part_001) and src/LAIM/static/app.js
    relay,      \* the relay handler: variant, position, status sent, bytes written
    src,        \* the backend's response: status, lines sent so far, closed
    reader,     \* the browser's streamResponse: bytes read, buffer, accumulated text
    \* ---- src/LAIM/static/app.js and the page embedded in part_003
    page,       \* the chat tab: chatMessages, the request's messages, botResponse
    \* ---- src/unnamed/part_002
    rec,        \* the recommender: ModelDatabase, its last request and response
    \* ---- src/newscript.js
    tab         \* a tab's isGenerating and currentChatId, and its calls of sendMessage

auxVars == <<made, files, live, log, requests>>
storeVars == <<clock, sessions, chats, messages, srv, bk, nextAcc, cli, turn, made, files, live,
               log, requests>>
relayVars == <<relay, src, reader>>
pageVars == <<page>>
recVars == <<rec>>
tabVars == <<tab>>
vars == <<clock, sessions, chats, messages, srv, bk, nextAcc, cli, turn, made, files, live,
          log, requests, relay, src, reader, page, rec, tab>>

\* ----------------------------------------------------------------- helpers
Last(s) == s[Len(s)]

RECURSIVE Flatten(_)
Flatten(ss) == IF ss = <<>> THEN <<>> ELSE Head(ss) \o Flatten(Tail(ss))

SeqMap(F(_), s) == [i \in 1..Len(s) |-> F(s[i])]

\* =========================================================================
\*                       src/main.go : the store
\* =========================================================================

\* Request bodies.  A content is a text of which only the length matters to
\* the server; "LONG" stands for a text of more than 50000 characters.
\* What the browser's user types, and the two contents at the edges: the empty
\* text and a text that is too long.
UserMessage == "hi"
RawContents == {"", "LONG"}
ContentLen(c) == CASE c = "" -> 0 [] c = "hi" -> 2 [] OTHER -> MaxContentLen + 1
Roles == {"user", "assistant", "system"}
RequestRoles == {"user", "bogus"}
Models == {"", "mistral"}

NoReq == [op |-> "none", malformed |-> FALSE, chat |-> 0, role |-> "", content |-> "",
          model |-> "", files |-> {}]
NoResp == [code |-> 0, chat |-> 0, rows |-> <<>>]
IdleSrv == [pc |-> "idle", req |-> NoReq, now |-> 0, id |-> 0, msgs |-> <<>>]
NoBk == [n |-> 0, chat |-> 0, model |-> "", msgs |-> <<>>]

\* sendError: a JSON error object with a status (main.go:356-364)
ErrorResp(code, op) == [code |-> code, chat |-> 0, rows |-> <<>>]

\* a middleware that lets every request with an X-Session-ID header through
AnyHeader(c) == cli[c].session # 0

\* withAuth (main.go:313-338): the X-Session-ID header must name a session.
\* A client without a session sends no header.
Authenticated(c) == cli[c].session # 0 /\ cli[c].session \in sessions

\* The dynamic type of the ResponseWriter every handler gets is
\* *loggingResponseWriter (main.go:137, 289): it embeds the interface
\* http.ResponseWriter and adds WriteHeader only, so it has no Flush method
\* and the assertion w.(http.Flusher) of main.go:857 and 988 fails.
ImplementsFlusher == FALSE

\* SELECT ... FROM messages WHERE chat_id = ? ORDER BY created_at ASC
\* (main.go:564-567, 885-888): every order of the chat's rows that is
\* non-decreasing in created_at (rows of equal created_at come in any order).
ChatRows(chatID) == {i \in 1..Len(messages) : messages[i].chat = chatID}

\* the same query without its ORDER BY: rows in rowid order
QueryMessagesRowid(chatID) ==
    LET S == ChatRows(chatID)
        n == Cardinality(S)
    IN {s \in [1..n -> S] : \A i, j \in 1..n : i < j => s[i] < s[j]}

QueryMessages(chatID) ==
    LET S == ChatRows(chatID)
        n == Cardinality(S)
    IN {s \in [1..n -> S] :
          /\ \A i, j \in 1..n : i # j => s[i] # s[j]
          /\ \A i \in 1..(n - 1) :
                messages[s[i]].created_at <= messages[s[i + 1]].created_at}

Rows(s) == [i \in 1..Len(s) |-> messages[s[i]]]

\* SELECT ... FROM files WHERE message_id = ? (main.go:584-597); files[f] is
\* the message_id column of file f, 0 for the "" an upload stores.
FilesIn(fs, msgID) == {f \in DOMAIN fs : fs[f] = msgID}

\* getChatMessages returns each message with its files (main.go:570-599).
RowsWithFiles(s) ==
    [i \in 1..Len(s) |->
        [id |-> messages[s[i]].id, chat |-> messages[s[i]].chat,
         role |-> messages[s[i]].role, content |-> messages[s[i]].content,
         created_at |-> messages[s[i]].created_at,
         files |-> FilesIn(files, messages[s[i]].id)]]

\* ----------------------------------------------------------------- clock
Tick ==
    /\ clock < MaxClock
    /\ clock' = clock + 1
    /\ UNCHANGED <<sessions, chats, messages, srv, bk, nextAcc, cli, turn>>
    /\ UNCHANGED <<relayVars, pageVars, recVars, tabVars>>
    /\ UNCHANGED auxVars

\* ------------------------------------------------ handleSession / initSession
\* newscript.js:24-49 initSession: reuse the id kept in localStorage (a tab of
\* a browser that already holds one) or POST /api/session (main.go:415-447).
InitSession(c) ==
    /\ cli[c].session = 0
    /\ \/ \E s \in sessions : cli' = [cli EXCEPT ![c].session = s]
                              /\ UNCHANGED <<sessions, live>>
       \/ LET s == Cardinality(sessions) + 1
          IN /\ sessions' = sessions \cup {s}
             /\ live' = live \cup {s}
             /\ cli' = [cli EXCEPT ![c].session = s]
    /\ UNCHANGED <<clock, chats, messages, srv, bk, nextAcc, turn>>
    /\ UNCHANGED <<relayVars, pageVars, recVars, tabVars>>
    /\ UNCHANGED <<made, files, log, requests>>

\* --------------------------------------------------------------- responses
\* What the handler of client c's request does when it returns: the response
\* reaches the client; a one-off request ("raw") is then over.
Deliver(c, r, waitpc) ==
    [cli EXCEPT ![c].resp = r,
                ![c].pc = IF waitpc = "raw" THEN "idle" ELSE waitpc]

\* ------------------------------------------------------------- createChat
\* POST /api/chats: withAuth (main.go:313-338), then createChat
\* (main.go:496-539).  INSERT INTO chats may fail (DB_ERROR, 500).  The
\* caller, newscript.js createNewChat (100-127), makes the new chat current on
\* success (loadChat sets state.currentChatId at once, line 130) and only
\* reports a failure.
\* The columns later statements read or write: session_id, title and
\* updated_at.  "New Chat" stands for the title given at creation (it is the
\* default, main.go:511-513).
NewChatRow(sessionID) == [session |-> sessionID, title |-> "New Chat", updated_at |-> clock]

createChat(c, waitpc) ==
    LET id == made + 1
    IN IF ~Authenticated(c)
       THEN /\ cli' = Deliver(c, ErrorResp(StatusUnauthorized, "createChat"), waitpc)
            /\ UNCHANGED <<chats, made>>
       ELSE \/ /\ made < MaxChats
               /\ made' = id
               /\ chats' = [k \in DOMAIN chats \cup {id} |->
                              IF k = id THEN NewChatRow(cli[c].session)
                                        ELSE chats[k]]
               /\ cli' = [Deliver(c, [code |-> StatusOK, chat |-> id, rows |-> <<>>], waitpc)
                            EXCEPT ![c].chat = id]
            \/ /\ cli' = Deliver(c, ErrorResp(StatusInternalServerError, "createChat"), waitpc)
               /\ UNCHANGED <<chats, made>>

\* ---------------------------------------------------------------- getChats
\* GET /api/chats: withAuth, handleChats, getChats (main.go:462-494):
\* SELECT ... FROM chats WHERE session_id = ? ORDER BY updated_at DESC, the
\* session being the one of the X-Session-ID header (450).  Rows of equal
\* updated_at come in any order.
SessionChats(sessionID) == {k \in DOMAIN chats : chats[k].session = sessionID}

\* the same query without its ORDER BY: the session's rows in any order
QueryChatsUnordered(sessionID) ==
    LET S == SessionChats(sessionID)
        n == Cardinality(S)
    IN {s \in [1..n -> S] : \A i, j \in 1..n : i # j => s[i] # s[j]}

QueryChats(sessionID) ==
    LET S == SessionChats(sessionID)
        n == Cardinality(S)
    IN {s \in [1..n -> S] :
          /\ \A i, j \in 1..n : i # j => s[i] # s[j]
          /\ \A i \in 1..(n - 1) :
                chats[s[i]].updated_at >= chats[s[i + 1]].updated_at}

ChatList(s) ==
    [i \in 1..Len(s) |-> [id |-> s[i], session |-> chats[s[i]].session,
                          title |-> chats[s[i]].title,
                          updated_at |-> chats[s[i]].updated_at]]

getChats(c, waitpc) ==
    IF ~Authenticated(c)
    THEN cli' = Deliver(c, ErrorResp(StatusUnauthorized, "getChats"), waitpc)
    ELSE \/ \E s \in QueryChats(cli[c].session) :
              cli' = Deliver(c, [code |-> StatusOK, chat |-> 0, rows |-> ChatList(s)], waitpc)
         \/ \* the query fails: DB_ERROR, 500 (470-474)
            cli' = Deliver(c, ErrorResp(StatusInternalServerError, "getChats"), waitpc)

\* Any HTTP client: GET /api/chats.
RawListChats(c) ==
    /\ cli[c].pc = "idle"
    /\ getChats(c, "raw")
    /\ UNCHANGED <<clock, sessions, chats, messages, srv, bk, nextAcc, turn>>
    /\ UNCHANGED <<relayVars, pageVars, recVars, tabVars>>
    /\ UNCHANGED auxVars

\* The "New Chat" button.
NewChat(c) ==
    /\ cli[c].pc = "idle"
    /\ createChat(c, "idle")
    /\ UNCHANGED <<clock, sessions, messages, srv, bk, nextAcc, turn>>
    /\ UNCHANGED <<relayVars, pageVars, recVars, tabVars>>
    /\ UNCHANGED <<files, live, log, requests>>

\* -------------------------------------------------------- getChatMessages
\* GET /api/chats/{id}: withAuth, handleChatDetail (main.go:541-558), then
\* getChatMessages (main.go:560-608): the rows of the chat named in the path,
\* whoever owns it.
getChatMessages(c, chatID, waitpc) ==
    IF ~Authenticated(c)
    THEN cli' = Deliver(c, ErrorResp(StatusUnauthorized, "getChatMessages"), waitpc)
    ELSE \E s \in QueryMessages(chatID) :
            cli' = Deliver(c, [code |-> StatusOK, chat |-> chatID,
                               rows |-> RowsWithFiles(s)], waitpc)

\* newscript.js:87-89, 129-158: a click on a chat of the list (the list holds
\* the session's chats, main.go:466-468) makes it current and loads it.
SelectChat(c) ==
    /\ cli[c].pc = "idle"
    /\ \E id \in DOMAIN chats :
          /\ chats[id].session = cli[c].session
          /\ \E s \in QueryMessages(id) :
                cli' = [cli EXCEPT ![c].chat = id,
                                   ![c].resp = [code |-> StatusOK, chat |-> id,
                                               rows |-> RowsWithFiles(s)]]
    /\ UNCHANGED <<clock, sessions, chats, messages, srv, bk, nextAcc, turn>>
    /\ UNCHANGED <<relayVars, pageVars, recVars, tabVars>>
    /\ UNCHANGED auxVars

\* Any HTTP client holding (or lacking) a session id: GET /api/chats/{id}
\* for any id.
RawGetChat(c) ==
    /\ cli[c].pc = "idle"
    /\ \E id \in DOMAIN chats : getChatMessages(c, id, "idle")
    /\ UNCHANGED <<clock, sessions, chats, messages, srv, bk, nextAcc, turn>>
    /\ UNCHANGED <<relayVars, pageVars, recVars, tabVars>>
    /\ UNCHANGED auxVars

\* -------------------------------------------------------------- deleteChat
\* DELETE /api/chats/{id}: withAuth, handleChatDetail, deleteChat
(* main.go:610-622 *)
\* DELETE FROM chats WHERE id = ?, and nothing else: the rows of messages
\* stay (the schema names no ON DELETE action, main.go:385-392).  A failing
\* statement is answered 500.
WithoutChat(chatID) == [k \in DOMAIN chats \ {chatID} |-> chats[k]]

deleteChat(c, chatID, waitpc) ==
    IF ~Authenticated(c)
    THEN /\ cli' = Deliver(c, ErrorResp(StatusUnauthorized, "deleteChat"), waitpc)
         /\ UNCHANGED chats
    ELSE \/ /\ chats' = WithoutChat(chatID)
            /\ cli' = Deliver(c, [code |-> StatusNoContent, chat |-> chatID, rows |-> <<>>],
                              waitpc)
         \/ /\ cli' = Deliver(c, ErrorResp(StatusInternalServerError, "deleteChat"), waitpc)
            /\ UNCHANGED chats

\* Any HTTP client: DELETE /api/chats/{id} for any id.
RawDeleteChat(c) ==
    /\ cli[c].pc = "idle"
    /\ \E id \in DOMAIN chats : deleteChat(c, id, "idle")
    /\ UNCHANGED <<clock, sessions, messages, srv, bk, nextAcc, turn>>
    /\ UNCHANGED <<relayVars, pageVars, recVars, tabVars>>
    /\ UNCHANGED auxVars

\* -------------------------------------------------------------- updateChat
\* PUT /api/chats/{id}: withAuth, handleChatDetail, updateChat
(* main.go:624-653 *)
\* UPDATE chats SET title = ?, updated_at = time.Now() WHERE id = ?
Titles == {"renamed", "LONGTITLE"}
TitleLen(t) ==
    CASE t = "LONGTITLE" -> MaxTitleLen + 1 [] t = "" -> 0 [] t = "New Chat" -> 8
      [] OTHER -> 7

RenameChat(chatID, title, now) ==
    [k \in DOMAIN chats |->
        IF k = chatID THEN [chats[k] EXCEPT !.title = title, !.updated_at = now]
                      ELSE chats[k]]

updateChat(c, chatID, title, malformed, waitpc) ==
    IF ~Authenticated(c)
    THEN /\ cli' = Deliver(c, ErrorResp(StatusUnauthorized, "updateChat"), waitpc)
         /\ UNCHANGED chats
    ELSE IF malformed \/ TitleLen(title) > MaxTitleLen
    THEN /\ cli' = Deliver(c, ErrorResp(StatusBadRequest, "updateChat"), waitpc)
         /\ UNCHANGED chats
    ELSE \/ /\ chats' = RenameChat(chatID, title, clock)
            /\ cli' = Deliver(c, [code |-> StatusOK, chat |-> chatID, rows |-> <<>>], waitpc)
         \/ /\ cli' = Deliver(c, ErrorResp(StatusInternalServerError, "updateChat"), waitpc)
            /\ UNCHANGED chats

\* Any HTTP client: PUT /api/chats/{id} for any id and body.
RawUpdateChat(c) ==
    /\ cli[c].pc = "idle"
    /\ \E id \in DOMAIN chats, title \in Titles, malformed \in BOOLEAN :
          updateChat(c, id, title, malformed, "idle")
    /\ UNCHANGED <<clock, sessions, messages, srv, bk, nextAcc, turn>>
    /\ UNCHANGED <<relayVars, pageVars, recVars, tabVars>>
    /\ UNCHANGED auxVars

\* Any HTTP client: PUT /api/chats/{id} with {"title": ""} or with no title.
RawClearTitle(c) ==
    /\ cli[c].pc = "idle"
    /\ \E id \in DOMAIN chats : updateChat(c, id, "", FALSE, "idle")
    /\ UNCHANGED <<clock, sessions, messages, srv, bk, nextAcc, turn>>
    /\ UNCHANGED <<relayVars, pageVars, recVars, tabVars>>
    /\ UNCHANGED auxVars

\* --------------------------------------------------------- handleMessages
\* POST /api/messages (main.go:655-712).  The handler runs in its own
\* goroutine; between its statements other handlers run.
\*   accept   withAuth, decode, validate role and length;
\*            msgID := uuid.New()                              (661-683)
\*   hm_now   now := time.Now()                               (684)
\*   hm_insert INSERT INTO messages; UPDATE files SET message_id (689-705)
\*   hm_touch UPDATE chats SET updated_at = now; reply        (707-711)
\* the validation without its test of the role
ValidAppendAnyRole(req) ==
    /\ ~req.malformed
    /\ ContentLen(req.content) <= MaxContentLen

ValidAppend(req) ==
    /\ ~req.malformed
    /\ req.role \in Roles
    /\ ContentLen(req.content) <= MaxContentLen

handleMessages(c, req, waitpc) ==
    IF ~Authenticated(c)
    THEN /\ cli' = Deliver(c, ErrorResp(StatusUnauthorized, "handleMessages"), waitpc)
         /\ UNCHANGED <<srv, nextAcc>>
    ELSE IF ~ValidAppend(req)
    THEN /\ cli' = Deliver(c, ErrorResp(StatusBadRequest, "handleMessages"), waitpc)
         /\ UNCHANGED <<srv, nextAcc>>
    ELSE /\ nextAcc < MaxMsgs
         /\ nextAcc' = nextAcc + 1
         /\ srv' = [srv EXCEPT ![c] = [IdleSrv EXCEPT !.pc = "hm_now", !.req = req,
                                                      !.id = nextAcc + 1]]
         /\ cli' = [cli EXCEPT ![c].resp = NoResp, ![c].pc = waitpc]

HM_Now(c) ==
    /\ srv[c].pc = "hm_now"
    /\ srv' = [srv EXCEPT ![c].pc = "hm_insert", ![c].now = clock]
    /\ UNCHANGED <<clock, sessions, chats, messages, bk, nextAcc, cli, turn>>
    /\ UNCHANGED <<relayVars, pageVars, recVars, tabVars>>
    /\ UNCHANGED auxVars

NewMessageRow(c) ==
    [id |-> srv[c].id, chat |-> srv[c].req.chat, role |-> srv[c].req.role,
     content |-> srv[c].req.content, created_at |-> srv[c].now]

\* sendMessage's position: between its start and its finally block.
InTurn(c) == cli[c].pc \in {"create", "ready", "awaitPersist", "loaded", "awaitChat"}

\* turn[c] lists what the current (or last) sendMessage of c has caused so far.
TurnEvent(c, e) == IF InTurn(c) THEN Append(turn[c], e) ELSE turn[c]

TurnAfterInsert(c) ==
    TurnEvent(c, IF srv[c].req.role = "user" THEN "persistUser" ELSE "persistAssistant")

\* UPDATE files SET message_id = ? WHERE id = ?, for each id of the request
\* (main.go:699-705): whatever message the file was linked to before.
LinkFiles(fileIDs, msgID) ==
    [f \in DOMAIN files |-> IF f \in fileIDs THEN msgID ELSE files[f]]

\* A handler that answers as if the message had been stored.
InsertSwallowed == [code |-> StatusOK, chat |-> 0, rows |-> <<>>]

\* What the caller of POST /api/messages gets when the INSERT has failed:
\* sendError(w, "Failed to create message", "DB_ERROR", 500) (main.go:695).
InsertFailed == ErrorResp(StatusInternalServerError, "handleMessages")

HM_Insert(c) ==
    /\ srv[c].pc = "hm_insert"
    /\ \/ /\ messages' = Append(messages, NewMessageRow(c))
          /\ \E linked \in SUBSET srv[c].req.files :
                \* a failing UPDATE is only logged (702-704)
                /\ files' = LinkFiles(linked, srv[c].id)
                /\ log' = IF linked = srv[c].req.files THEN log
                          ELSE log \cup {"Error linking file"}
          /\ srv' = [srv EXCEPT ![c].pc = "hm_touch"]
          /\ turn' = [turn EXCEPT ![c] = TurnAfterInsert(c)]
          /\ UNCHANGED cli
       \/ \* the INSERT fails: logged, then DB_ERROR, 500 (693-697)
          /\ log' = log \cup {"Error creating message"}
          /\ cli' = Deliver(c, InsertFailed, cli[c].pc)
          /\ srv' = [srv EXCEPT ![c] = IdleSrv]
          /\ UNCHANGED <<messages, turn, files>>
    /\ UNCHANGED <<clock, sessions, chats, bk, nextAcc>>
    /\ UNCHANGED <<relayVars, pageVars, recVars, tabVars>>
    /\ UNCHANGED <<made, live, requests>>

\* ------------------------------------------------------------ handleUpload
\* POST /api/upload: withAuth, handleUpload (main.go:714-800).  A form that
\* cannot be parsed is answered 400; each accepted file gets a row of files
\* with message_id "" (782-785); a file that is rejected or whose INSERT
\* fails is skipped, and the answer is 200 with the files stored.
handleUpload(c, malformed) ==
    IF ~Authenticated(c)
    THEN /\ cli' = Deliver(c, ErrorResp(StatusUnauthorized, "handleUpload"), "raw")
         /\ UNCHANGED files
    ELSE IF malformed
    THEN /\ cli' = Deliver(c, ErrorResp(StatusBadRequest, "handleUpload"), "raw")
         /\ UNCHANGED files
    ELSE /\ \/ Len(files) < MaxFiles /\ files' = Append(files, 0)
            \/ UNCHANGED files
         /\ cli' = Deliver(c, [code |-> StatusOK, chat |-> 0, rows |-> <<>>], "raw")

RawUpload(c) ==
    /\ cli[c].pc = "idle"
    /\ \E malformed \in BOOLEAN : handleUpload(c, malformed)
    /\ UNCHANGED <<clock, sessions, chats, messages, srv, bk, nextAcc, turn>>
    /\ UNCHANGED <<relayVars, pageVars, recVars, tabVars>>
    /\ UNCHANGED <<made, live, log, requests>>

TouchChat(chatID, now) ==
    [k \in DOMAIN chats |-> IF k = chatID THEN [chats[k] EXCEPT !.updated_at = now]
                                          ELSE chats[k]]

HM_Touch(c) ==
    /\ srv[c].pc = "hm_touch"
    /\ chats' = TouchChat(srv[c].req.chat, srv[c].now)
    /\ cli' = Deliver(c, [code |-> StatusOK, chat |-> srv[c].req.chat, rows |-> <<>>], cli[c].pc)
    /\ srv' = [srv EXCEPT ![c] = IdleSrv]
    /\ UNCHANGED <<clock, sessions, messages, bk, nextAcc, turn>>
    /\ UNCHANGED <<relayVars, pageVars, recVars, tabVars>>
    /\ UNCHANGED auxVars

\* Any HTTP client: POST /api/messages with any body.  Chat id 0 is the empty
\* chat_id, which names no chat.
RawAppend(c) ==
    /\ cli[c].pc = "idle"
    /\ \E chat \in DOMAIN chats \cup {0}, role \in RequestRoles,
          content \in RawContents, malformed \in BOOLEAN, fileIDs \in SUBSET DOMAIN files :
          handleMessages(c, [op |-> "append", malformed |-> malformed, chat |-> chat,
                             role |-> role, content |-> content, model |-> "",
                             files |-> fileIDs], "raw")
    /\ UNCHANGED <<clock, sessions, chats, messages, bk, turn>>
    /\ UNCHANGED <<relayVars, pageVars, recVars, tabVars>>
    /\ UNCHANGED auxVars

\* ------------------------------------------------------- handleOllamaChat
\* POST /api/chat (main.go:867-996).
\*   accept    withAuth, decode                                (868-879)
\*   oc_query  SELECT role, content ... ORDER BY created_at;
\*             messages = history + the request's message      (884-948)
\*   oc_do     http.DefaultClient.Do under a 5 minute context  (966-981)
\*   oc_wait   the backend holds the request
\*   reply     the Flusher assertion, then io.Copy             (984-995)
OllamaMessage(row) == [role |-> row.role, content |-> row.content]

handleOllamaChat(c, req, waitpc) ==
    IF ~Authenticated(c)
    THEN /\ cli' = Deliver(c, ErrorResp(StatusUnauthorized, "handleOllamaChat"), waitpc)
         /\ UNCHANGED <<srv, bk>>
    ELSE IF req.malformed
    THEN /\ cli' = Deliver(c, ErrorResp(StatusBadRequest, "handleOllamaChat"), waitpc)
         /\ UNCHANGED <<srv, bk>>
    ELSE /\ srv' = [srv EXCEPT ![c] = [IdleSrv EXCEPT !.pc = "oc_query", !.req = req]]
         /\ bk' = [bk EXCEPT ![c] = NoBk]
         /\ cli' = [cli EXCEPT ![c].resp = NoResp, ![c].pc = waitpc]

OC_Query(c) ==
    /\ srv[c].pc = "oc_query"
    /\ \E s \in QueryMessages(srv[c].req.chat) :
          srv' = [srv EXCEPT ![c].pc = "oc_do",
                             ![c].msgs = Append(SeqMap(OllamaMessage, Rows(s)),
                                                [role |-> "user",
                                                 content |-> srv[c].req.content])]
    /\ turn' = [turn EXCEPT ![c] = TurnEvent(c, "loadHistory")]
    /\ UNCHANGED <<clock, sessions, chats, messages, bk, nextAcc, cli>>
    /\ UNCHANGED <<relayVars, pageVars, recVars, tabVars>>
    /\ UNCHANGED auxVars

\* The request reaches the backend, or the connection is refused (503).
OC_Do(c) ==
    /\ srv[c].pc = "oc_do"
    /\ \/ /\ bk' = [bk EXCEPT ![c] = [n |-> bk[c].n + 1, chat |-> srv[c].req.chat,
                                      model |-> srv[c].req.model, msgs |-> srv[c].msgs]]
          /\ srv' = [srv EXCEPT ![c].pc = "oc_wait", ![c].msgs = <<>>]
          /\ turn' = [turn EXCEPT ![c] = TurnEvent(c, "invokeBackend")]
          /\ UNCHANGED cli
       \/ /\ cli' = Deliver(c, ErrorResp(StatusServiceUnavailable, "handleOllamaChat"),
                            cli[c].pc)
          /\ srv' = [srv EXCEPT ![c] = IdleSrv]
          /\ turn' = [turn EXCEPT ![c] = TurnEvent(c, "refused")]
          /\ UNCHANGED bk
    /\ UNCHANGED <<clock, sessions, chats, messages, nextAcc>>
    /\ UNCHANGED <<relayVars, pageVars, recVars, tabVars>>
    /\ UNCHANGED auxVars

\* What handleOllamaChat does with the backend's response (984-995).  With a
\* ResponseWriter that is no http.Flusher it answers 500 STREAMING_ERROR and
\* the deferred resp.Body.Close() drops the stream unread.
ChatReply(status) ==
    IF ImplementsFlusher
    THEN [code |-> StatusOK, chat |-> 0, rows |-> <<>>]
    ELSE ErrorResp(StatusInternalServerError, "handleOllamaChat")

\* The backend answers: status 200 and a stream of records, or a non-success
\* status (the model is unknown).
BackendAnswer(c) ==
    /\ srv[c].pc = "oc_wait"
    /\ \E status \in {StatusOK, StatusNotFound} :
          /\ cli' = Deliver(c, ChatReply(status), cli[c].pc)
          /\ turn' = [turn EXCEPT ![c] = TurnEvent(c, IF status = StatusOK
                                                      THEN "backend200"
                                                      ELSE "backendRejected")]
    /\ bk' = [bk EXCEPT ![c] = NoBk]
    /\ srv' = [srv EXCEPT ![c] = IdleSrv]
    /\ UNCHANGED <<clock, sessions, chats, messages, nextAcc>>
    /\ UNCHANGED <<relayVars, pageVars, recVars, tabVars>>
    /\ UNCHANGED auxVars

\* The backend never answers: chatCtx expires after 5 minutes, Do returns an
\* error (966-981).
BackendTimeout(c) ==
    /\ srv[c].pc = "oc_wait"
    /\ cli' = Deliver(c, ErrorResp(StatusServiceUnavailable, "handleOllamaChat"), cli[c].pc)
    /\ bk' = [bk EXCEPT ![c] = NoBk]
    /\ turn' = [turn EXCEPT ![c] = TurnEvent(c, "timeout")]
    /\ srv' = [srv EXCEPT ![c] = IdleSrv]
    /\ UNCHANGED <<clock, sessions, chats, messages, nextAcc>>
    /\ UNCHANGED <<relayVars, pageVars, recVars, tabVars>>
    /\ UNCHANGED auxVars

\* Any HTTP client: POST /api/chat with any body.
RawChat(c) ==
    /\ cli[c].pc = "idle"
    /\ \E chat \in DOMAIN chats \cup {0}, model \in Models, malformed \in BOOLEAN :
          handleOllamaChat(c, [op |-> "chat", malformed |-> malformed, chat |-> chat,
                               role |-> "user", content |-> UserMessage, model |-> model,
                               files |-> {}],
                           "raw")
    /\ UNCHANGED <<clock, sessions, chats, messages, nextAcc, turn>>
    /\ UNCHANGED <<relayVars, pageVars, recVars, tabVars>>
    /\ UNCHANGED auxVars

\* =========================================================================
\*                  src/newscript.js : sendMessage (324-452)
\* =========================================================================
\* sendMessage without its first step: it goes to the chat request at once
SendUnsaved(c) ==
    /\ cli[c].pc = "idle"
    /\ ~cli[c].gen
    /\ cli' = [cli EXCEPT ![c].pc = IF cli[c].chat = 0 THEN "create" ELSE "loaded"]
    /\ turn' = [turn EXCEPT ![c] = <<>>]
    /\ UNCHANGED <<clock, sessions, chats, messages, srv, bk, nextAcc>>
    /\ UNCHANGED <<relayVars, pageVars, recVars, tabVars>>
    /\ UNCHANGED auxVars

\* 325-332: a non-empty message and isGenerating false; without a current
\* chat, createNewChat is awaited first.
Send(c) ==
    /\ cli[c].pc = "idle"
    /\ ~cli[c].gen
    /\ cli' = [cli EXCEPT ![c].pc = IF cli[c].chat = 0 THEN "create" ELSE "ready"]
    /\ turn' = [turn EXCEPT ![c] = <<>>]
    /\ UNCHANGED <<clock, sessions, chats, messages, srv, bk, nextAcc>>
    /\ UNCHANGED <<relayVars, pageVars, recVars, tabVars>>
    /\ UNCHANGED auxVars

\* 330-332 with 100-127
JS_CreateNewChat(c) ==
    /\ cli[c].pc = "create"
    /\ createChat(c, "ready")
    /\ UNCHANGED <<clock, sessions, messages, srv, bk, nextAcc, turn>>
    /\ UNCHANGED <<relayVars, pageVars, recVars, tabVars>>
    /\ UNCHANGED <<files, live, log, requests>>

\* 334-353: isGenerating = true; POST /api/messages with the user's message
JS_PersistUser(c) ==
    /\ cli[c].pc = "ready"
    /\ LET req == [op |-> "append", malformed |-> FALSE, chat |-> cli[c].chat,
                   role |-> "user", content |-> UserMessage, model |-> "",
                   files |-> {}]
       IN IF Authenticated(c) /\ ValidAppend(req)
          THEN /\ nextAcc < MaxMsgs
               /\ nextAcc' = nextAcc + 1
               /\ srv' = [srv EXCEPT ![c] = [IdleSrv EXCEPT !.pc = "hm_now", !.req = req,
                                                            !.id = nextAcc + 1]]
               /\ cli' = [cli EXCEPT ![c].resp = NoResp, ![c].pc = "awaitPersist",
                                     ![c].gen = TRUE]
          ELSE /\ cli' = [cli EXCEPT ![c].resp = ErrorResp(IF Authenticated(c)
                                                           THEN StatusBadRequest
                                                           ELSE StatusUnauthorized,
                                                           "handleMessages"),
                                     ![c].pc = "awaitPersist", ![c].gen = TRUE]
               /\ UNCHANGED <<srv, nextAcc>>
    /\ UNCHANGED <<clock, sessions, chats, messages, bk, turn>>
    /\ UNCHANGED <<relayVars, pageVars, recVars, tabVars>>
    /\ UNCHANGED auxVars

\* 444-451: catch, then finally: isGenerating = false
Finally(c) == [cli EXCEPT ![c].pc = "idle", ![c].gen = FALSE]

\* 355-364: a failed save throws; else await loadChat(currentChatId), whose
\* own failure is only reported (154-157)
JS_LoadChat(c) ==
    /\ cli[c].pc = "awaitPersist"
    /\ cli[c].resp.code # 0
    /\ IF cli[c].resp.code # StatusOK
       THEN cli' = Finally(c)
       ELSE getChatMessages(c, cli[c].chat, "loaded")
    /\ UNCHANGED <<clock, sessions, chats, messages, srv, bk, nextAcc, turn>>
    /\ UNCHANGED <<relayVars, pageVars, recVars, tabVars>>
    /\ UNCHANGED auxVars

\* 366-385: POST /api/chat with the chat, the model selected and the same
\* message
CurrentModel == "mistral"

JS_Chat(c) ==
    /\ cli[c].pc = "loaded"
    /\ handleOllamaChat(c, [op |-> "chat", malformed |-> FALSE, chat |-> cli[c].chat,
                            role |-> "user", content |-> UserMessage,
                            model |-> CurrentModel], "awaitChat")
    /\ UNCHANGED <<clock, sessions, chats, messages, nextAcc, turn>>
    /\ UNCHANGED <<relayVars, pageVars, recVars, tabVars>>
    /\ UNCHANGED auxVars

\* 387-389: a response that is not ok throws.  (391-442, the read loop and the
\* save of the assistant's message, need a 200 from /api/chat, which
\* handleOllamaChat never sends: see ChatReply.)
JS_AfterChat(c) ==
    /\ cli[c].pc = "awaitChat"
    /\ cli[c].resp.code # 0
    /\ cli[c].resp.code # StatusOK
    /\ cli' = Finally(c)
    /\ UNCHANGED <<clock, sessions, chats, messages, srv, bk, nextAcc, turn>>
    /\ UNCHANGED <<relayVars, pageVars, recVars, tabVars>>
    /\ UNCHANGED auxVars

\* ------------------------------------- handleModels, handlePull, handleDelete
\* GET /api/models (main.go:998-1018, not behind withAuth), POST /api/pull
\* (1020-1049) and DELETE /api/delete (1051-1080), both behind withAuth
\* (130-131).  Each builds a backend request and waits for http.DefaultClient.Do.
AdminOps == {"models", "pull", "delete"}

handleAdmin(c, op, malformed) ==
    IF op # "models" /\ ~Authenticated(c)
    THEN /\ cli' = Deliver(c, ErrorResp(StatusUnauthorized, op), "raw")
         /\ UNCHANGED srv
    ELSE IF op # "models" /\ malformed
    THEN /\ cli' = Deliver(c, ErrorResp(StatusBadRequest, op), "raw")
         /\ UNCHANGED srv
    ELSE /\ srv' = [srv EXCEPT ![c] = [IdleSrv EXCEPT !.pc = "admin",
                                                      !.req = [NoReq EXCEPT !.op = op]]]
         /\ cli' = [cli EXCEPT ![c].resp = NoResp, ![c].pc = "raw"]

RawAdmin(c) ==
    /\ cli[c].pc = "idle"
    /\ \E op \in AdminOps, malformed \in BOOLEAN : handleAdmin(c, op, malformed)
    /\ UNCHANGED <<clock, sessions, chats, messages, bk, nextAcc, turn>>
    /\ UNCHANGED <<relayVars, pageVars, recVars, tabVars>>
    /\ UNCHANGED auxVars

\* A wrong handler end that records the use of the chats: it stamps them.
AdminTouches(c) == [k \in DOMAIN chats |-> [chats[k] EXCEPT !.updated_at = clock + 1]]

\* What the end of an admin handler leaves in the chats table: no statement
\* is run (main.go:1008-1017, 1038-1048, 1069-1079).
AdminStore(c) == chats

\* Do returns.  An error is answered 503 (1009-1013, 1039-1043, 1070-1074);
\* otherwise the body is copied with status 200 (1016-1017, 1047-1048), or,
\* for delete, with the backend's status (1078-1079).
AdminAnswer(c) ==
    /\ srv[c].pc = "admin"
    /\ \E code \in {StatusServiceUnavailable, StatusOK, StatusNotFound} :
          /\ code = StatusNotFound => srv[c].req.op = "delete"
          /\ cli' = Deliver(c, ErrorResp(code, srv[c].req.op), cli[c].pc)
    /\ chats' = AdminStore(c)
    /\ srv' = [srv EXCEPT ![c] = IdleSrv]
    /\ UNCHANGED <<clock, sessions, messages, bk, nextAcc, turn>>
    /\ UNCHANGED <<relayVars, pageVars, recVars, tabVars>>
    /\ UNCHANGED auxVars

\* ------------------------------------------------- NewServer, withAuth
\* The process is started again: NewServer opens the same database file and
\* makes an empty sessions map (main.go:169-186); the rows of all tables
\* stay, and the browsers keep their session ids (newscript.js:25).
Restart ==
    /\ \A c \in Clients : srv[c].pc = "idle" /\ cli[c].pc = "idle"
    /\ live # {}
    /\ live' = {}
    /\ requests' = <<>>
    /\ UNCHANGED <<clock, sessions, chats, messages, srv, bk, nextAcc, cli, turn>>
    /\ UNCHANGED <<relayVars, pageVars, recVars, tabVars>>
    /\ UNCHANGED <<made, files, log>>

\* withAuth on a request whose session id is not in the map: SELECT COUNT(*)
\* FROM sessions WHERE id = ? is run, and when the query returns an error
\* the request is answered 401 INVALID_SESSION like one with an unknown id
\* (main.go:326-333).  The handler behind withAuth is not called.
AuthLookupFails(c) ==
    /\ cli[c].pc = "idle"
    /\ cli[c].session # 0
    /\ cli[c].session \notin live
    /\ cli' = Deliver(c, ErrorResp(StatusUnauthorized, "withAuth"), "raw")
    /\ UNCHANGED <<clock, sessions, chats, messages, srv, bk, nextAcc, turn>>
    /\ UNCHANGED <<relayVars, pageVars, recVars, tabVars>>
    /\ UNCHANGED auxVars

\* ------------------------------------------------- the chat of the pages
\* The chat tab of the two single-page UIs over several turns: app.js
\* (194-226, with streamResponse 131-169) and the page embedded in part_003
\* (981-1109).  page.history is chatMessages, page.sent the messages of the
\* request of the current or last turn, page.bot the text accumulated from
\* the chunks of the current turn (botResponse, assistantResponseContent),
\* page.sys whether the system prompt field holds text.  Contents are
\* sequences of fragments; <<>> is the empty string.
Pages == {"app", "embedded"}
IdlePage == [variant |-> "none", pc |-> "closed", sys |-> FALSE, history |-> <<>>,
             sent |-> <<>>, bot |-> <<>>, turns |-> 0]

Msg(role, content) == [role |-> role, content |-> content]
SystemMsg == Msg("system", <<"sys">>)
UserMsg == Msg("user", <<UserMessage>>)

\* The page is loaded, with or without a system prompt in its field.
PageLoad(v, sys) ==
    /\ page.pc = "closed"
    /\ page' = [page EXCEPT !.variant = v, !.pc = "idle", !.sys = sys]
    /\ UNCHANGED <<storeVars, relayVars, recVars, tabVars>>

\* app.js:202-206: the request's list is chatMessages and the new user
\* message, with the system prompt in front only when the list has one
\* element; chatMessages is not touched before onDone.
AppMsgs ==
    LET msgs == Append(page.history, UserMsg)
    IN IF page.sys /\ Len(msgs) = 1 THEN <<SystemMsg>> \o msgs ELSE msgs

\* part_003:987-992: the system prompt is pushed to chatMessages when that
\* is empty, then the user message; the request carries chatMessages (1015).
EmbeddedMsgs ==
    LET h == IF Len(page.history) = 0 /\ page.sys THEN <<SystemMsg>> ELSE page.history
    IN Append(h, UserMsg)

\* A click on Send with a non-empty input.
PageSend ==
    /\ page.pc = "idle"
    /\ page.turns < MaxTurns
    /\ page' = IF page.variant = "app"
               THEN [page EXCEPT !.pc = "stream", !.sent = AppMsgs, !.bot = <<>>,
                                 !.turns = @ + 1]
               ELSE [page EXCEPT !.pc = "stream", !.sent = EmbeddedMsgs,
                                 !.history = EmbeddedMsgs, !.bot = <<>>,
                                 !.turns = @ + 1]
    /\ UNCHANGED <<storeVars, relayVars, recVars, tabVars>>

\* A chunk with message.content arrives (app.js:212-215, part_003:1066-1068).
PageChunk ==
    /\ page.pc = "stream"
    /\ Len(page.bot) < MaxChunks
    /\ \E frag \in {"a", "b"} : page' = [page EXCEPT !.bot = Append(@, frag)]
    /\ UNCHANGED <<storeVars, relayVars, recVars, tabVars>>

\* What the end of a turn leaves in chatMessages.  app.js: onDone runs in
\* finally, after a stream, a cancel and an error alike, and pushes the user
\* message and botResponse (162-165, 220-223).  part_003: the assistant
\* message is pushed after the loop when it has text (1089-1091); an error
\* skips it (1093).
HistoryAtEnd(failed) ==
    IF page.variant = "app"
    THEN page.history \o <<UserMsg, Msg("assistant", page.bot)>>
    ELSE IF ~failed /\ page.bot # <<>>
    THEN Append(page.history, Msg("assistant", page.bot))
    ELSE page.history

\* The stream ends: read() returns done, after the body's end or a cancel.
PageDone ==
    /\ page.pc = "stream"
    /\ page' = [page EXCEPT !.pc = "idle", !.history = HistoryAtEnd(FALSE)]
    /\ UNCHANGED <<storeVars, relayVars, recVars, tabVars>>

\* fetch throws, the answer is not ok, or read() throws in mid-stream
\* (app.js:139, 163; part_003:1020-1023, 1093).
PageFail ==
    /\ page.pc = "stream"
    /\ page' = [page EXCEPT !.pc = "idle", !.history = HistoryAtEnd(TRUE)]
    /\ UNCHANGED <<storeVars, relayVars, recVars, tabVars>>

\* ------------------------------------------------------------- Spec
\* The recommender before main has run: ModelDatabase is the empty map
\* (part_002:80), nothing was asked.
NoRec == [pc |-> "start", db |-> {}, vram |-> 0, ram |-> 0, task |-> <<>>,
          code |-> 0, results |-> <<>>]

\* A tab after its page has loaded: state.isGenerating false and
\* state.currentChatId null (newscript.js:1-20), no send event yet.
NoTab == [gen |-> FALSE, chat |-> 0, calls |-> [i \in 1..MaxSends |-> "none"]]

NoClient == [session |-> 0, chat |-> 0, gen |-> FALSE, pc |-> "idle", resp |-> NoResp]

IdleRelay == [variant |-> "none", pc |-> "idle", pos |-> 0, code |-> 0, out |-> <<>>,
              sawDone |-> FALSE, action |-> "none", called |-> <<>>, failed |-> 0]
IdleSrc == [status |-> 0, lines |-> <<>>, closed |-> FALSE]
IdleReader == [pc |-> "idle", pos |-> 0, buffer |-> <<>>, text |-> <<>>, chunks |-> <<>>,
               sawDone |-> FALSE]

InitStore ==
    /\ clock = 0
    /\ sessions = {}
    /\ chats = <<>>
    /\ messages = <<>>
    /\ srv = [c \in Clients |-> IdleSrv]
    /\ bk = [c \in Clients |-> NoBk]
    /\ nextAcc = 0
    /\ cli = [c \in Clients |-> NoClient]
    /\ turn = [c \in Clients |-> <<>>]
    /\ made = 0
    /\ files = <<>>
    /\ live = {}
    /\ log = {}
    /\ requests = <<>>

InitRelayIdle ==
    /\ relay = IdleRelay
    /\ src = IdleSrc
    /\ reader = IdleReader
    /\ page = IdlePage
    /\ rec = NoRec
    /\ tab = NoTab

Init == InitStore /\ InitRelayIdle

Next ==
    \/ Tick
    \/ \E c \in ApiClients :
          \/ RawGetChat(c)
          \/ RawAppend(c)
          \/ RawChat(c)
    \/ \E c \in Browsers :
          \/ NewChat(c)
          \/ SelectChat(c)
    \/ \E c \in Clients :
          \/ InitSession(c)
          \/ HM_Now(c)
          \/ HM_Insert(c)
          \/ HM_Touch(c)
          \/ OC_Query(c)
          \/ OC_Do(c)
          \/ BackendAnswer(c)
          \/ BackendTimeout(c)
    \/ \E c \in Browsers :
          \/ Send(c)
          \/ JS_CreateNewChat(c)
          \/ JS_PersistUser(c)
          \/ JS_LoadChat(c)
          \/ JS_Chat(c)
          \/ JS_AfterChat(c)

Spec == Init /\ [][Next]_vars

\* The server of main.go under arbitrary requests of its clients: every
\* route that reads or writes the store.
NextStore ==
    \/ Tick
    \/ \E c \in Clients :
          \/ InitSession(c)
          \/ NewChat(c)
          \/ RawGetChat(c)
          \/ RawDeleteChat(c)
          \/ RawUpdateChat(c)
          \/ RawAppend(c)
          \/ HM_Now(c)
          \/ HM_Insert(c)
          \/ HM_Touch(c)
    \/ \E c \in ApiClients :
          \/ RawAdmin(c)
          \/ AdminAnswer(c)

SpecStore == Init /\ [][NextStore]_vars

\* The server over its lifetime: sessions are issued and used, and the
\* process is restarted.
NextSessions ==
    \/ Tick
    \/ Restart
    \/ \E c \in Clients :
          \/ InitSession(c)
          \/ NewChat(c)
          \/ RawGetChat(c)
          \/ RawUpdateChat(c)
          \/ AuthLookupFails(c)

SpecSessions == Init /\ [][NextSessions]_vars

\* The server opened over the database file of an earlier run (NewServer,
\* main.go:169-186, CREATE TABLE IF NOT EXISTS, 366-413): the file holds one
\* session and a chat of it; the sessions map is empty.
InitReopened ==
    /\ clock = 0
    /\ sessions = {1}
    /\ chats = [k \in {MaxChats + 1} |->
                   [session |-> 1, title |-> "New Chat", updated_at |-> 0]]
    /\ messages = <<>>
    /\ srv = [c \in Clients |-> IdleSrv]
    /\ bk = [c \in Clients |-> NoBk]
    /\ nextAcc = 0
    /\ cli = [c \in Clients |-> NoClient]
    /\ turn = [c \in Clients |-> <<>>]
    /\ made = 0
    /\ files = <<>>
    /\ live = {}
    /\ log = {}
    /\ requests = <<>>
    /\ InitRelayIdle

\* Clients that create, rename, delete and list chats.
NextChats ==
    \/ Tick
    \/ \E c \in Clients :
          \/ InitSession(c)
          \/ NewChat(c)
          \/ RawUpdateChat(c)
          \/ RawDeleteChat(c)
          \/ RawListChats(c)

SpecChats == InitReopened /\ [][NextChats]_vars

\* A user chatting in one of the pages.
NextPage ==
    \/ \E v \in Pages, sys \in BOOLEAN : PageLoad(v, sys)
    \/ PageSend
    \/ PageChunk
    \/ PageDone
    \/ PageFail

SpecPage == Init /\ [][NextPage]_vars

\* Clients that upload files and name them in their messages.
NextFiles ==
    \E c \in Clients :
        \/ InitSession(c)
        \/ NewChat(c)
        \/ RawUpload(c)
        \/ RawAppend(c)
        \/ HM_Now(c)
        \/ HM_Insert(c)
        \/ HM_Touch(c)
        \/ RawGetChat(c)

SpecFiles == Init /\ [][NextFiles]_vars

\* =========================================================================
\*     the streaming relays (part_003, part_001) and the browser reader
\* =========================================================================
\* The relay handlers that answer POST /api/ollama-action:
\*   chat003   part_003 callChatAPI      (1385-1458)
\*   gen003    part_003 callGenerateAPI  (1309-1382)
\*   proxy001  part_001 callChatAPI -> proxyStreamRequest (237-244, 264-281)
Variants == {"chat003", "gen003", "proxy001"}
ActionType(v) == IF v = "gen003" THEN "generate" ELSE "chat"

\* A text is a sequence of characters; a fragment is a short text.
Fragments == {<<>>, <<"a">>, <<"b">>}

\* The lines of the backend's response body.
\*   rec    a JSON record of the API called: its fragment is in "response"
\*          (generate) or in "message.content" (chat), with a done flag
\*   err    the JSON object {"error": ...} of a non-success response
\*   bad    a line that is no JSON
\*   empty  an empty line
\*   DONE   the text [DONE], which only the relay writes
NoLine == [kind |-> "none", api |-> "", frag |-> <<>>, done |-> FALSE]
Record(api, frag, done) == [kind |-> "rec", api |-> api, frag |-> frag, done |-> done]
ErrLine == [NoLine EXCEPT !.kind = "err"]
BadLine == [NoLine EXCEPT !.kind = "bad"]
EmptyLine == [NoLine EXCEPT !.kind = "empty"]
DoneLine == [NoLine EXCEPT !.kind = "DONE"]

BodyLines(api) ==
    {Record(api, f, d) : f \in Fragments, d \in BOOLEAN} \cup {BadLine, EmptyLine}

\* The bytes of the relay's response, in pieces that a network read can
\* separate: the prefix "data: ", the two halves of a line's text, a newline.
PrefixTok == [t |-> "prefix", h |-> 0, l |-> NoLine]
NlTok == [t |-> "nl", h |-> 0, l |-> NoLine]
Half(n, line) == [t |-> "half", h |-> n, l |-> line]
LineText(line) == IF line.kind = "empty" THEN <<>> ELSE <<Half(1, line), Half(2, line)>>

\* fmt.Fprintf(w, "data: %s\n\n", line)   (part_003:1444, 1449; part_001:277)
Event(line) == <<PrefixTok>> \o LineText(line) \o <<NlTok, NlTok>>

\* json.Unmarshal([]byte(line), &chunk) into OllamaResponseChunk
\* (part_003:54-60, 1438): an object decodes, fields it lacks stay zero.
Unmarshals(line) == line.kind \in {"rec", "err"}
ChunkResponse(line) == IF line.api = "generate" THEN line.frag ELSE <<>>
ChunkMessageContent(line) == IF line.api = "chat" THEN line.frag ELSE <<>>

\* chunk.Response != ""                              (part_003:1367)
\* chunk.Message != nil && chunk.Message.Content != ""  (part_003:1443)
HasFragment(v, line) ==
    IF v = "gen003" THEN ChunkResponse(line) # <<>>
    ELSE ChunkMessageContent(line) # <<>>

\* a relay that takes every record for the last one
AlwaysDone(line) == TRUE

\* if chunk.Done   (part_003:1372, 1448)
IsDone(line) == line.done

\* One turn of the scanner loop of part_003 (1355-1377, 1431-1453) on the
\* line read: what is written to the client, and whether the loop goes on.
Relay003(v, line, out) ==
    IF line.kind = "empty" \/ ~Unmarshals(line)
    THEN [out |-> out, brk |-> FALSE]
    ELSE LET out1 == IF HasFragment(v, line) THEN out \o Event(line) ELSE out
         IN IF IsDone(line)
            THEN [out |-> out1 \o Event(DoneLine), brk |-> TRUE]
            ELSE [out |-> out1, brk |-> FALSE]

\* One turn of the scanner loop of part_001 (276-279).
Relay001(line, out) == [out |-> out \o Event(line), brk |-> FALSE]

RelayLine(v, line, out) ==
    IF v = "proxy001" THEN Relay001(line, out) ELSE Relay003(v, line, out)

\* ------------------------------------------------------------ the request
\* The browser posts the action (app.js:133-137); handleOllamaAction
\* dispatches to the relay (part_003:1280-1306, part_001:181-204).
\* A deliberately wrong dispatch table: delete requests the pull endpoint.
BackendAPISwapped(actionType) ==
    CASE actionType = "generate" -> "/api/generate"
      [] actionType = "chat" -> "/api/chat"
      [] actionType = "pull" -> "/api/pull"
      [] actionType = "delete" -> "/api/pull"

\* The backend endpoint each call function requests (part_003:18-22,
\* 1322, 1398, 1471, 1513; part_001:23-27, 234, 243, 247, 252).
BackendAPI(actionType) ==
    CASE actionType = "generate" -> "/api/generate"
      [] actionType = "chat" -> "/api/chat"
      [] actionType = "pull" -> "/api/pull"
      [] actionType = "delete" -> "/api/delete"

OllamaAction(v) ==
    /\ relay.pc = "idle"
    /\ relay' = [relay EXCEPT !.variant = v, !.pc = "do",
                              !.action = ActionType(v),
                              !.called = <<BackendAPI(ActionType(v))>>]
    /\ reader' = [reader EXCEPT !.pc = "fetch"]
    /\ UNCHANGED src
    /\ UNCHANGED <<storeVars, pageVars, recVars, tabVars>>

\* The other action types a request can carry: the two model operations
\* and values the switch does not know ("" is a request without actionType).
Programs == {"003", "001"}
OtherActionTypes == {"pull", "delete", "bogus", ""}

\* handleOllamaAction on such a request (part_003:1294-1305,
\* part_001:192-203): pull and delete go to callModelPullAPI and
\* callModelDeleteAPI, which request the backend; anything else is answered
\* 400 by the default branch.
OllamaModelAction(prog, actionType) ==
    /\ relay.pc = "idle"
    /\ IF actionType \in {"pull", "delete"}
       THEN relay' = [relay EXCEPT !.variant = prog, !.pc = "model_do",
                                   !.action = actionType,
                                   !.called = <<BackendAPI(actionType)>>]
       ELSE relay' = [relay EXCEPT !.variant = prog, !.pc = "finished",
                                   !.action = actionType,
                                   !.code = StatusBadRequest]
    /\ UNCHANGED <<src, reader>>
    /\ UNCHANGED <<storeVars, pageVars, recVars, tabVars>>

\* client.Do of a model operation fails (part_003:1477-1482, 1519-1524;
\* part_001:292-295).
ModelDoFails ==
    /\ relay.pc = "model_do"
    /\ relay' = [relay EXCEPT !.pc = "finished", !.code = StatusBadGateway]
    /\ src' = [src EXCEPT !.closed = TRUE]
    /\ UNCHANGED reader
    /\ UNCHANGED <<storeVars, pageVars, recVars, tabVars>>

\* client.Do of a model operation returns with the backend's status line;
\* the body follows (part_003:1477-1483, 1519-1525; part_001:287-288).
ModelDoReturns(status) ==
    /\ relay.pc = "model_do"
    /\ relay' = [relay EXCEPT !.pc = "model_read"]
    /\ src' = [src EXCEPT !.status = status]
    /\ UNCHANGED reader
    /\ UNCHANGED <<storeVars, pageVars, recVars, tabVars>>

\* io.ReadAll(resp.Body) takes the next record of the body as it arrives
\* and keeps it (part_003:1485, 1527; part_001:297).
ModelRead ==
    /\ relay.pc = "model_read"
    /\ relay.pos < Len(src.lines)
    /\ relay' = [relay EXCEPT !.pos = @ + 1]
    /\ UNCHANGED <<src, reader>>
    /\ UNCHANGED <<storeVars, pageVars, recVars, tabVars>>

\* The bytes of a body passed on as read: each line and its newline.
BodyBytes(lines) == Flatten(SeqMap(LAMBDA line : LineText(line) \o <<NlTok>>, lines))

\* io.ReadAll returns at the end of the body; the backend's status and the
\* whole body are then written (part_003:1491-1499, 1533-1541;
\* part_001:298-299).
ModelReadAll ==
    /\ relay.pc = "model_read"
    /\ relay.pos = Len(src.lines)
    /\ src.closed
    /\ relay' = [relay EXCEPT !.pc = "finished", !.code = src.status,
                               !.out = BodyBytes(src.lines)]
    /\ UNCHANGED <<src, reader>>
    /\ UNCHANGED <<storeVars, pageVars, recVars, tabVars>>

\* A handler that would call client.Do once more after an error.
DoFailsRetry ==
    /\ relay.pc = "do"
    /\ IF Len(relay.called) < 2
       THEN relay' = [relay EXCEPT !.called = Append(@, @[1])] /\ UNCHANGED src
       ELSE /\ relay' = [relay EXCEPT !.pc = "finished", !.code = StatusBadGateway]
            /\ src' = [src EXCEPT !.closed = TRUE]
    /\ UNCHANGED reader
    /\ UNCHANGED <<storeVars, pageVars, recVars, tabVars>>

\* client.Do fails: connection refused, or no response headers within the
\* client's 300 s (part_003:1330-1335, 1406-1411; part_001:269-273).
DoFails ==
    /\ relay.pc = "do"
    /\ relay' = [relay EXCEPT !.pc = "finished", !.code = StatusBadGateway]
    /\ src' = [src EXCEPT !.closed = TRUE]
    /\ UNCHANGED reader
    /\ UNCHANGED <<storeVars, pageVars, recVars, tabVars>>

\* client.Do returns the backend's response.  part_003 passes a non-200
\* status on with the body as an error text (1337-1342, 1413-1418);
\* part_001 does not look at the status and streams the body.
DoReturns(status) ==
    /\ relay.pc = "do"
    /\ IF relay.variant # "proxy001" /\ status # StatusOK
       THEN /\ relay' = [relay EXCEPT !.pc = "finished", !.code = status]
            /\ src' = [src EXCEPT !.status = status, !.lines = <<ErrLine>>, !.closed = TRUE]
       ELSE /\ relay' = [relay EXCEPT !.pc = "scan", !.code = StatusOK]
            /\ src' = [src EXCEPT !.status = status]
    /\ UNCHANGED reader
    /\ UNCHANGED <<storeVars, pageVars, recVars, tabVars>>

\* ------------------------------------------------------------ the backend
\* The backend writes one more line of its body: with status 200 any line,
\* nothing after a record with done=true; with another status the error
\* object.
SentDone == \E i \in 1..Len(src.lines) : src.lines[i].done

\* The records of a model operation's response: a progress record
\* {"status": ...} and the last one, {"status": "success"}.
ProgressLines(actionType) ==
    {Record(actionType, <<"a">>, FALSE), Record(actionType, <<>>, TRUE)}

\* The lines the backend may send in answer to the call made.
ResponseLines ==
    IF relay.pc \in {"model_do", "model_read"} THEN ProgressLines(relay.action)
    ELSE BodyLines(ActionType(relay.variant))

BackendSend ==
    /\ src.status # 0
    /\ ~src.closed
    /\ Len(src.lines) < MaxRecs
    /\ IF src.status = StatusOK
       THEN /\ ~SentDone
            /\ \E line \in ResponseLines :
                  src' = [src EXCEPT !.lines = Append(@, line)]
       ELSE /\ src.lines = <<>>
            /\ src' = [src EXCEPT !.lines = <<ErrLine>>]
    /\ UNCHANGED <<relay, reader>>
    /\ UNCHANGED <<storeVars, pageVars, recVars, tabVars>>

\* The backend closes the connection, at the end of its body or before.
BackendClose ==
    /\ src.status # 0
    /\ ~src.closed
    /\ src' = [src EXCEPT !.closed = TRUE]
    /\ UNCHANGED <<relay, reader>>
    /\ UNCHANGED <<storeVars, pageVars, recVars, tabVars>>

\* -------------------------------------------------------------- the relay
\* scanner.Scan() returns the next line of the body and the loop body runs
\* on it.  relay.sawDone records that a record with done=true was read.
\* Once the client has closed the response, fmt.Fprintf returns an error,
\* which no relay looks at (part_003:1368, 1373, 1444, 1449; part_001:277);
\* relay.failed counts the turns of the loop whose write failed so.
RelayScan ==
    /\ relay.pc = "scan"
    /\ relay.pos < Len(src.lines)
    /\ LET line == src.lines[relay.pos + 1]
           r == RelayLine(relay.variant, line, relay.out)
       IN relay' = [relay EXCEPT !.pos = @ + 1,
                                 !.out = r.out,
                                 !.failed = IF reader.pc = "cancelled" /\ r.out # relay.out
                                            THEN @ + 1 ELSE @,
                                 !.sawDone = @ \/ line.done,
                                 !.pc = IF r.brk THEN "finished" ELSE "scan"]
    /\ UNCHANGED <<src, reader>>
    /\ UNCHANGED <<storeVars, pageVars, recVars, tabVars>>

\* scanner.Scan() returns false: the body ended (the backend closed), or
\* the client's 300 s ran out while the backend sent nothing more
\* (part_003:1292, part_001:191).  The handler returns; nothing is written
\* after the loop (part_003:1379-1382, 1455-1458; part_001:280).
RelayEnd ==
    /\ relay.pc = "scan"
    /\ relay.pos = Len(src.lines)
    /\ relay' = [relay EXCEPT !.pc = "finished"]
    /\ src' = [src EXCEPT !.closed = TRUE]
    /\ UNCHANGED reader
    /\ UNCHANGED <<storeVars, pageVars, recVars, tabVars>>

\* ------------------------------------------- the reader: streamResponse
\* app.js:131-169 (the pages of part_003 read the same way, 916-945 and
\* 1026-1082).
\* buffer.split('\n'): the pieces between newlines, the last one unfinished
RECURSIVE SplitNL(_)
SplitNL(toks) ==
    IF toks = <<>> THEN << <<>> >>
    ELSE LET rest == SplitNL(Tail(toks))
         IN IF Head(toks).t = "nl"
            THEN << <<>> >> \o rest
            ELSE << <<Head(toks)>> \o Head(rest) >> \o Tail(rest)

Front(s) == SubSeq(s, 1, Len(s) - 1)

\* a reader that keeps no unfinished line between reads
NoRemainder(pieces) == <<>>

\* buffer = lines.pop()   (app.js:148)
Remainder(pieces) == Last(pieces)

\* JSON.parse(data) succeeds on the whole text of a JSON line
Parses(data) ==
    /\ Len(data) = 2
    /\ data[1].t = "half" /\ data[1].h = 1
    /\ data[2].t = "half" /\ data[2].h = 2
    /\ data[1].l = data[2].l
    /\ data[1].l.kind \in {"rec", "err"}

\* onChunk: if (chunk.response) fullText += chunk.response          (183-186)
\*          if (chunk.message && chunk.message.content) botResponse += ... (215-219)
OnChunk(action, chunk, text) ==
    IF action = "generate" THEN text \o ChunkResponse(chunk)
    ELSE text \o ChunkMessageContent(chunk)

\* for (const line of lines) ...   (app.js:150-158).  st.chunks lists the
\* objects handed to onChunk, st.sawDone that [DONE] was met.
RECURSIVE ForLines(_, _, _)
ForLines(action, lines, st) ==
    IF lines = <<>> THEN st
    ELSE LET line == Head(lines)
         IN IF line # <<>> /\ Head(line).t = "prefix"
            THEN LET data == Tail(line)
                 IN IF data = LineText(DoneLine)
                    THEN [st EXCEPT !.sawDone = TRUE]
                    ELSE IF Parses(data)
                    THEN ForLines(action, Tail(lines),
                                  [st EXCEPT !.text = OnChunk(action, data[1].l, @),
                                             !.chunks = Append(@, data[1].l)])
                    ELSE ForLines(action, Tail(lines), st)
            ELSE ForLines(action, Tail(lines), st)

\* fetch resolves with the relay's status: if (!response.ok) throw (139);
\* the catch reports it and finally runs onDone (160-166).
ReaderResponse ==
    /\ reader.pc = "fetch"
    /\ relay.code # 0
    /\ reader' = [reader EXCEPT !.pc = IF relay.code = StatusOK THEN "read" ELSE "error"]
    /\ UNCHANGED <<relay, src>>
    /\ UNCHANGED <<storeVars, pageVars, recVars, tabVars>>

\* reader.read() returns some of the bytes written and not yet read
\* (144-158).
ReaderRead ==
    /\ reader.pc = "read"
    /\ \E k \in 1..(Len(relay.out) - reader.pos) :
          LET value == SubSeq(relay.out, reader.pos + 1, reader.pos + k)
              pieces == SplitNL(reader.buffer \o value)
              st == ForLines(ActionType(relay.variant), Front(pieces), reader)
          IN reader' = [st EXCEPT !.pos = @ + k, !.buffer = Remainder(pieces)]
    /\ UNCHANGED <<relay, src>>
    /\ UNCHANGED <<storeVars, pageVars, recVars, tabVars>>

\* reader.read() returns done: the relay has returned and all is read;
\* finally runs onDone (145, 162-165).
ReaderEnd ==
    /\ reader.pc = "read"
    /\ relay.pc = "finished"
    /\ reader.pos = Len(relay.out)
    /\ reader' = [reader EXCEPT !.pc = "done"]
    /\ UNCHANGED <<relay, src>>
    /\ UNCHANGED <<storeVars, pageVars, recVars, tabVars>>

\* The stop button: currentReader.cancel() (app.js:285-289) closes the
\* response; the pending read returns done, the loop ends and finally runs
\* onDone with the text accumulated so far (145, 162-165, 220-225).  The
\* relay handlers never look at r.Context() and call the backend without a
\* context, so nothing tells them.
ReaderCancel ==
    /\ reader.pc = "read"
    /\ reader' = [reader EXCEPT !.pc = "cancelled"]
    /\ UNCHANGED <<relay, src>>
    /\ UNCHANGED <<storeVars, pageVars, recVars, tabVars>>

\* ------------------------------------------ the read loop of newscript.js
\* sendMessage reads the body of /api/chat (newscript.js:386-426), which
\* handleOllamaChat copies from the backend unchanged (main.go:994): the
\* backend's lines, each ended by a newline.
NdjsonLine(line) == LineText(line) \o <<NlTok>>
NdjsonBody == Flatten(SeqMap(NdjsonLine, src.lines))

\* for (let line of lines) ... (newscript.js:412-425): every piece of
\* chunk.split('\n') that is not blank is handed to JSON.parse; a piece that
\* does not parse is skipped.
RECURSIVE NS_ForLines(_, _)
NS_ForLines(lines, text) ==
    IF lines = <<>> THEN text
    ELSE NS_ForLines(Tail(lines),
                     IF Parses(Head(lines))
                     THEN text \o ChunkMessageContent(Head(lines)[1].l)
                     ELSE text)

\* The response of a chat request arrives and its body is opened
\* (newscript.js:386-388).
NS_Open ==
    /\ reader.pc = "idle"
    /\ relay.pc = "idle"
    /\ reader' = [reader EXCEPT !.pc = "ns_read"]
    /\ src' = [src EXCEPT !.status = StatusOK]
    /\ UNCHANGED relay
    /\ UNCHANGED <<storeVars, pageVars, recVars, tabVars>>

\* reader.read() returns some of the bytes not yet read; they are decoded
\* and split on their own, nothing is kept for the next read (405-411).
NS_Read ==
    /\ reader.pc = "ns_read"
    /\ \E k \in 1..(Len(NdjsonBody) - reader.pos) :
          LET value == SubSeq(NdjsonBody, reader.pos + 1, reader.pos + k)
          IN reader' = [reader EXCEPT !.pos = @ + k,
                                      !.text = NS_ForLines(SplitNL(value), @)]
    /\ UNCHANGED <<relay, src>>
    /\ UNCHANGED <<storeVars, pageVars, recVars, tabVars>>

\* reader.read() returns done (407).
NS_End ==
    /\ reader.pc = "ns_read"
    /\ src.closed
    /\ reader.pos = Len(NdjsonBody)
    /\ reader' = [reader EXCEPT !.pc = "ns_done"]
    /\ UNCHANGED <<relay, src>>
    /\ UNCHANGED <<storeVars, pageVars, recVars, tabVars>>

NextNewscriptReader ==
    \/ NS_Open
    \/ BackendSend
    \/ BackendClose
    \/ NS_Read
    \/ NS_End

SpecNewscriptReader == Init /\ [][NextNewscriptReader]_vars

\* Clients that create chats and set their titles.
NextTitles ==
    \/ Tick
    \/ \E c \in Clients :
          \/ InitSession(c)
          \/ NewChat(c)
          \/ RawUpdateChat(c)
          \/ RawClearTitle(c)
          \/ RawListChats(c)

SpecTitles == Init /\ [][NextTitles]_vars

\* ------------------------------------------------ requests without a session
\* An X-Session-ID header that names no session: sessionID := r.Header.Get
\* (main.go:315) takes whatever the client sends.
BogusSession == 99

\* A client makes up a session id and sends it from then on.
ForgeSession(c) ==
    /\ cli[c].session = 0
    /\ cli' = [cli EXCEPT ![c].session = BogusSession]
    /\ UNCHANGED <<clock, sessions, chats, messages, srv, bk, nextAcc, turn>>
    /\ UNCHANGED <<relayVars, pageVars, recVars, tabVars>>
    /\ UNCHANGED auxVars

\* A browser with a session, and a client that never asks for one, on the
\* routes of main.go:116-131.
NextAuth ==
    \/ \E c \in Browsers : InitSession(c)
    \/ \E c \in ApiClients : ForgeSession(c)
    \/ \E c \in Clients :
          \/ NewChat(c)
          \/ RawListChats(c)
          \/ RawGetChat(c)
          \/ RawDeleteChat(c)
          \/ RawUpdateChat(c)
          \/ RawAppend(c)
          \/ HM_Now(c)
          \/ HM_Insert(c)
          \/ HM_Touch(c)
          \/ RawUpload(c)
          \/ RawChat(c)
          \/ OC_Query(c)
          \/ OC_Do(c)
          \/ BackendAnswer(c)
          \/ BackendTimeout(c)
          \/ RawAdmin(c)
          \/ AdminAnswer(c)

SpecAuth == Init /\ [][NextAuth]_vars

\* =========================================================================
\*        src/newscript.js : send events of one tab (324-452)
\* =========================================================================
\* Each click on Send and each Enter (731-735) starts a call of sendMessage;
\* the calls share state.isGenerating and state.currentChatId and run
\* interleaved at their awaits.  What the server answers to each request is
\* an input here.  tab.calls[i] is the await at which call i stands:
\*   none     not started           refused  returned at the guard (328)
\*   create   await createNewChat() (331)
\*   persist  await fetch('/api/messages'), the user's message (340)
\*   load     await loadChat (363)
\*   chat     await fetch('/api/chat') (371)
\*   read     await reader.read() (406)
\*   save     await fetch('/api/messages'), the assistant's message (428)
\*   reload   await loadChats() (442)
\*   done     after the finally block (447-451)
Sends == 1..MaxSends

\* 328-337: the guard; without a current chat createNewChat is awaited,
\* else isGenerating is set and the user's message is posted.
TabSend(i) ==
    /\ tab.calls[i] = "none"
    /\ IF tab.gen
       THEN tab' = [tab EXCEPT !.calls[i] = "refused"]
       ELSE IF tab.chat = 0
       THEN tab' = [tab EXCEPT !.calls[i] = "create"]
       ELSE tab' = [tab EXCEPT !.calls[i] = "persist", !.gen = TRUE]
    /\ UNCHANGED <<storeVars, relayVars, pageVars, recVars>>

\* createNewChat returns (100-127): on success loadChat has made the new
\* chat current (130), a failure is only reported; then 334-340.
TabCreated(i) ==
    /\ tab.calls[i] = "create"
    /\ \E ok \in BOOLEAN :
          tab' = [tab EXCEPT !.calls[i] = "persist", !.gen = TRUE,
                             !.chat = IF ok THEN i ELSE @]
    /\ UNCHANGED <<storeVars, relayVars, pageVars, recVars>>

\* 444-451: catch and finally.
TabFinally(i) == [tab EXCEPT !.calls[i] = "done", !.gen = FALSE]

\* An await of the try block returns: the call goes on to the next one, or
\* the await throws or its response is not ok (355-357, 387-389) and the
\* call goes to its finally block.  loadChat and loadChats report their own
\* failures and return (154-157, 66-71).
TabStep(i) ==
    /\ tab.calls[i] \in {"persist", "load", "chat", "read", "save", "reload"}
    /\ \E ok \in BOOLEAN :
          tab' = CASE tab.calls[i] = "persist" /\ ok -> [tab EXCEPT !.calls[i] = "load"]
                   [] tab.calls[i] = "load" -> [tab EXCEPT !.calls[i] = "chat"]
                   [] tab.calls[i] = "chat" /\ ok -> [tab EXCEPT !.calls[i] = "read"]
                   [] tab.calls[i] = "read" /\ ok -> [tab EXCEPT !.calls[i] = "save"]
                   [] tab.calls[i] = "save" /\ ok -> [tab EXCEPT !.calls[i] = "reload"]
                   [] OTHER -> TabFinally(i)
    /\ UNCHANGED <<storeVars, relayVars, pageVars, recVars>>

NextTab ==
    \E i \in Sends :
        \/ TabSend(i)
        \/ TabCreated(i)
        \/ TabStep(i)

SpecTab == Init /\ [][NextTab]_vars

\* =========================================================================
\*              src/unnamed/part_002 : the model recommender
\* =========================================================================
\* A text is the sequence of its characters.  Entries of StaticMetadata
\* (part_002:83-131) and a model that is not listed there: it gets the
\* placeholder's hardware and the tasks found for it, a tag of Hugging Face
\* as it is spelled there (176-196, 278-284).
TinyLlama == [name |-> "tinyllama", minVRAM |-> 2, minRAM |-> 4,
              tasks |-> <<<<"c", "h", "a", "t">>, <<"s", "u", "m", "m", "a", "r", "i", "z", "a", "t", "i", "o", "n">>,
                          <<"e", "x", "p", "e", "r", "i", "m", "e", "n", "t">>>>]
Mistral == [name |-> "mistral", minVRAM |-> 6, minRAM |-> 8,
            tasks |-> <<<<"c", "h", "a", "t">>, <<"g", "e", "n", "e", "r", "a", "t", "e">>,
                        <<"c", "o", "d", "e">>, <<"g", "e", "n", "e", "r", "a", "l">>>>]
CodeLlama == [name |-> "codellama:7b-code", minVRAM |-> DefaultVRAMGB, minRAM |-> DefaultRAMGB,
              tasks |-> <<<<"c", "o", "d", "e">>, <<"g", "e", "n", "e", "r", "a", "t", "e">>,
                          <<"p", "r", "o", "g", "r", "a", "m", "m", "i", "n", "g">>>>]
Enriched == [name |-> "phi3:mini", minVRAM |-> DefaultVRAMGB, minRAM |-> DefaultRAMGB,
             tasks |-> <<<<"C", "o", "d", "e">>>>]
KnownModels == {TinyLlama, Mistral, CodeLlama, Enriched}

\* What a query parameter holds: nothing, a text that is no integer, or an
\* integer.
NoParam == [kind |-> "none", n |-> 0]
BadParam == [kind |-> "bad", n |-> 0]
Num(n) == [kind |-> "int", n |-> n]
VramParams == {NoParam, BadParam, Num(0), Num(2), Num(6), Num(MaxVRAMGB + 1)}
RamParams == {NoParam, BadParam, Num(4), Num(8)}
TaskParams == {<<>>, <<"c", "h", "a", "t">>, <<"c", "o", "d", "e">>, <<"C", "O", "D", "E">>,
               <<"o", "d", "e">>, <<"x", "y", "z">>}

\* strings.ToLower on the letters used here
LowerChar(ch) ==
    CASE ch = "C" -> "c" [] ch = "O" -> "o" [] ch = "D" -> "d" [] ch = "E" -> "e"
      [] OTHER -> ch
ToLower(text) == [i \in 1..Len(text) |-> LowerChar(text[i])]

\* strings.Contains(t, task)
Contains(t, task) ==
    \E i \in 0..(Len(t) - Len(task)) : SubSeq(t, i + 1, i + Len(task)) = task

\* a filter that is used as it was typed
TaskFilterRaw(task) == task

\* task = strings.ToLower(task)   (part_002:328)
TaskFilter(task) == ToLower(task)

\* the inner loop over model.Tasks (336-341)
IsSuitable(model, task) ==
    \E i \in 1..Len(model.tasks) : Contains(model.tasks[i], task)

\* The loop over ModelDatabase in the order the map is ranged over (330-349).
RECURSIVE RecommendLoop(_, _, _, _, _)
RecommendLoop(order, vram, ram, task, results) ==
    IF order = <<>> THEN results
    ELSE LET model == Head(order)
         IN IF vram < model.minVRAM \/ ram < model.minRAM
            THEN RecommendLoop(Tail(order), vram, ram, task, results)
            ELSE IF task # <<>> /\ ~IsSuitable(model, task)
            THEN RecommendLoop(Tail(order), vram, ram, task, results)
            ELSE RecommendLoop(Tail(order), vram, ram, task, Append(results, model))

recommendModels(order, vram, ram, task) ==
    RecommendLoop(order, vram, ram, TaskFilter(task), <<>>)

\* The orders in which range may go through a map with these values.
RangeOrders(db) ==
    LET n == Cardinality(db)
    IN {o \in [1..n -> db] : \A i, j \in 1..n : i # j => o[i] # o[j]}

\* main calls fetchAndMergeModels before it listens (part_002:610-627): the
\* database is the static list, or what the backend has installed (219-290).
fetchAndMergeModels ==
    /\ rec.pc = "start"
    /\ \E db \in SUBSET KnownModels : rec' = [rec EXCEPT !.pc = "serving", !.db = db]
    /\ UNCHANGED <<storeVars, relayVars, pageVars, tabVars>>

\* strconv.Atoi and the range test of a parameter (387-412): the value used,
\* or 0 when the request is refused.
Parsed(param, default, min, max) ==
    IF param.kind = "none" THEN default
    ELSE IF param.kind = "bad" \/ param.n < min \/ param.n > max THEN 0
    ELSE param.n

\* GET /api/v1/recommendations?vram=&ram=&task= (378-434)
handleRecommendations(vramStr, ramStr, task) ==
    LET vram == Parsed(vramStr, DefaultVRAMGB, MinVRAMGB, MaxVRAMGB)
        ram == Parsed(ramStr, DefaultRAMGB, MinRAMGB, MaxRAMGB)
    IN /\ rec.pc = "serving"
       /\ IF vram = 0
          THEN rec' = [rec EXCEPT !.vram = 0, !.ram = 0, !.task = task,
                                  !.code = StatusBadRequest, !.results = <<>>]
          ELSE IF ram = 0
          THEN rec' = [rec EXCEPT !.vram = vram, !.ram = 0, !.task = task,
                                  !.code = StatusBadRequest, !.results = <<>>]
          ELSE \E order \in RangeOrders(rec.db) :
                  rec' = [rec EXCEPT !.vram = vram, !.ram = ram, !.task = task,
                                     !.code = StatusOK,
                                     !.results = recommendModels(order, vram, ram, task)]
       /\ UNCHANGED <<storeVars, relayVars, pageVars, tabVars>>

NextRecommender ==
    \/ fetchAndMergeModels
    \/ \E vramStr \in VramParams, ramStr \in RamParams, task \in TaskParams :
          handleRecommendations(vramStr, ramStr, task)

SpecRecommender == Init /\ [][NextRecommender]_vars

\* =========================================================================
\*                  src/main.go : the rate limiter
\* =========================================================================
\* RateLimiter (main.go:79-87, 198-248): a map from key to a counter with a
\* reset time, under one mutex.  withRateLimit (340-354) is always inside
\* withAuth (116-127), so its key is the session id of the request.
\* now.After(counter.resetTime) in Allow (222)
WindowOver(counter, now) == now > counter.resetTime

\* a test that takes the window for over at its reset time already
StaleEarly(counter, now) == now >= counter.resetTime

\* now.After(counter.resetTime) in cleanup (244)
Stale(counter, now) == now > counter.resetTime

\* a test that lets one more request through
ExhaustedLate(counter) == counter.count > RateLimit

\* counter.count >= 60 (229)
Exhausted(counter) == counter.count >= RateLimit

\* The key of a request: its X-Session-ID header (342-345).
LimiterKey(sessionID) == sessionID

\* !exists || now.After(counter.resetTime) (219-222)
OpensWindow(reqs, key, now) == key \notin DOMAIN reqs \/ WindowOver(reqs[key], now)

\* What Allow(key) returns at time now (215-236).
AllowReturns(reqs, key, now) ==
    OpensWindow(reqs, key, now) \/ ~Exhausted(reqs[key])

\* The map Allow(key) leaves at time now (215-236).
AllowUpdate(reqs, key, now) ==
    IF OpensWindow(reqs, key, now)
    THEN [k \in DOMAIN reqs \cup {key} |->
             IF k = key THEN [count |-> 1, resetTime |-> now + MinuteTicks] ELSE reqs[k]]
    ELSE IF Exhausted(reqs[key]) THEN reqs
    ELSE [reqs EXCEPT ![key].count = @ + 1]

\* The map cleanup leaves at time now (238-248).
CleanedUp(reqs, now) ==
    [k \in {k \in DOMAIN reqs : ~Stale(reqs[k], now)} |-> reqs[k]]

\* time passes
LimiterTick ==
    /\ clock < MaxNow
    /\ clock' = clock + 1
    /\ UNCHANGED <<sessions, chats, messages, srv, bk, nextAcc, cli, turn>>
    /\ UNCHANGED <<relayVars, pageVars, recVars, tabVars>>
    /\ UNCHANGED auxVars

\* GET /api/chats through its middleware: withAuth, withRateLimit, then
\* handleChats (116, 313-354).  A request that Allow refuses is answered 429
\* RATE_LIMIT and the handler is not called (347-350).
RateLimitedListChats(c) ==
    /\ cli[c].pc = "idle"
    /\ IF ~Authenticated(c)
       THEN /\ cli' = Deliver(c, ErrorResp(StatusUnauthorized, "withAuth"), "raw")
            /\ UNCHANGED requests
       ELSE LET key == LimiterKey(cli[c].session)
            IN /\ requests' = AllowUpdate(requests, key, clock)
               /\ IF AllowReturns(requests, key, clock)
                  THEN getChats(c, "raw")
                  ELSE cli' = Deliver(c, ErrorResp(StatusTooManyRequests, "withRateLimit"),
                                     "raw")
    /\ UNCHANGED <<clock, sessions, chats, messages, srv, bk, nextAcc, turn>>
    /\ UNCHANGED <<relayVars, pageVars, recVars, tabVars>>
    /\ UNCHANGED <<made, files, live, log>>

\* The ticker's goroutine runs cleanup (204-209, 238-248).
cleanup ==
    /\ requests' = CleanedUp(requests, clock)
    /\ UNCHANGED <<clock, sessions, chats, messages, srv, bk, nextAcc, cli, turn>>
    /\ UNCHANGED <<relayVars, pageVars, recVars, tabVars>>
    /\ UNCHANGED <<made, files, live, log>>

\* Clients that ask for their chats again and again while time passes and
\* the ticker fires.  (The other specifications follow clients that stay
\* under the limit.)
NextLimiter ==
    \/ LimiterTick
    \/ cleanup
    \/ \E c \in Clients :
          \/ InitSession(c)
          \/ RateLimitedListChats(c)

SpecLimiter == Init /\ [][NextLimiter]_vars

\* After the read loop sendMessage posts what it has accumulated as the
\* assistant's message of the current chat, without files
\* (newscript.js:428-441).  "hi" stands for a text that is not empty.
PersistAssistant(c) ==
    /\ cli[c].pc = "idle"
    /\ reader.pc = "ns_done"
    /\ handleMessages(c, [op |-> "append", malformed |-> FALSE, chat |-> cli[c].chat,
                          role |-> "assistant",
                          content |-> IF reader.text = <<>> THEN "" ELSE "hi",
                          model |-> "", files |-> {}], "raw")
    /\ UNCHANGED <<clock, sessions, chats, messages, bk, turn>>
    /\ UNCHANGED <<relayVars, pageVars, recVars, tabVars>>
    /\ UNCHANGED auxVars

\* A browser that reads the stream of a chat to its end and then saves the
\* assistant's message.
NextPersist ==
    \/ NextNewscriptReader
    \/ \E c \in Browsers :
          \/ InitSession(c)
          \/ NewChat(c)
          \/ PersistAssistant(c)
          \/ HM_Now(c)
          \/ HM_Insert(c)
          \/ HM_Touch(c)

SpecPersist == Init /\ [][NextPersist]_vars

NextRelay ==
    \/ \E v \in Variants : OllamaAction(v)
    \/ \E prog \in Programs, actionType \in OtherActionTypes :
          OllamaModelAction(prog, actionType)
    \/ ModelDoFails
    \/ \E status \in {StatusOK, StatusNotFound} : ModelDoReturns(status)
    \/ ModelRead
    \/ ModelReadAll
    \/ DoFails
    \/ \E status \in {StatusOK, StatusNotFound} : DoReturns(status)
    \/ BackendSend
    \/ BackendClose
    \/ RelayScan
    \/ RelayEnd
    \/ ReaderResponse
    \/ ReaderRead
    \/ ReaderEnd
    \/ ReaderCancel

SpecRelay == Init /\ [][NextRelay]_vars

\* A backend that goes on writing lines after a record with done=true: the
\* relays read whatever the body holds (bufio.Scanner over resp.Body,
\* part_003:1354-1355, 1430-1431; part_001:275-276).
BackendSendAfterDone ==
    /\ src.status = StatusOK
    /\ ~src.closed
    /\ SentDone
    /\ Len(src.lines) < MaxRecs
    /\ \E line \in BodyLines(ActionType(relay.variant)) :
          src' = [src EXCEPT !.lines = Append(@, line)]
    /\ UNCHANGED <<relay, reader>>
    /\ UNCHANGED <<storeVars, pageVars, recVars, tabVars>>

NextRelayAnyBackend ==
    \/ NextRelay
    \/ BackendSendAfterDone

SpecRelayAnyBackend == Init /\ [][NextRelayAnyBackend]_vars

\* =========================================================================
\*                 properties of the store and of a chat turn
\* =========================================================================
Range(s) == {s[i] : i \in 1..Len(s)}

IsStep(e) == e \in {"persistUser", "loadHistory", "invokeBackend", "persistAssistant"}
StepOrder == <<"persistUser", "loadHistory", "invokeBackend", "persistAssistant">>
IsPersist(e) == e \in {"persistUser", "persistAssistant"}
IsPrefix(s, t) == Len(s) <= Len(t) /\ \A i \in 1..Len(s) : s[i] = t[i]
TurnOver(c) == cli[c].pc = "idle" /\ turn[c] # <<>>

\* C1: a chat turn whose backend call answered with a clean stream leaves two
\* more messages in the chat (the user's and the assistant's); a turn whose
\* backend call failed before any fragment leaves exactly one, the user's.
C1_TurnPersistsBoth ==
    \A c \in Browsers :
        TurnOver(c) =>
            /\ "backend200" \in Range(turn[c])
                  => Len(SelectSeq(turn[c], IsPersist)) = 2
            /\ Range(turn[c]) \cap {"refused", "timeout", "backendRejected"} # {}
                  => SelectSeq(turn[c], IsPersist) = <<"persistUser">>

\* C2: a session reads, and sends to the backend, only messages of chats it
\* owns: no response carries rows of another session's chat, and no backend
\* request is made for another session's chat.
Owns(c, chatID) == chatID \in DOMAIN chats /\ chats[chatID].session = cli[c].session

C2_NoCrossSessionAccess ==
    \A c \in Clients :
        /\ cli[c].resp.rows # <<>> => Owns(c, cli[c].resp.chat)
        /\ bk[c].n > 0 /\ bk[c].chat \in DOMAIN chats => Owns(c, bk[c].chat)

\* C6: the rows a message listing returns are in non-decreasing created_at
\* order, whatever the interleaving of the appends that made them.
Sorted(rows) == \A i \in 1..(Len(rows) - 1) : rows[i].created_at <= rows[i + 1].created_at

C6_ListSorted == \A c \in Clients : Sorted(cli[c].resp.rows)

\* a listing of two rows inserted by overlapping appends: the row accepted
\* later comes first because it took the earlier timestamp
C6_Witness ==
    \E c \in Clients :
        /\ Len(cli[c].resp.rows) = 2
        /\ cli[c].resp.rows[1].id > cli[c].resp.rows[2].id
        /\ cli[c].resp.rows[1].created_at < cli[c].resp.rows[2].created_at

\* C7: within one chat a later-accepted append never gets an earlier position
\* or an earlier timestamp than an earlier-accepted one.
C7_AcceptanceOrder ==
    \A i, j \in 1..Len(messages) :
        messages[i].chat = messages[j].chat /\ messages[i].id < messages[j].id
            => i < j /\ messages[i].created_at <= messages[j].created_at

\* C8: the steps of a turn happen in the fixed order persist user message,
\* load history, invoke backend, persist assistant message: what a turn has
\* done so far is always an initial part of that order.
C8_TurnOrder ==
    \A c \in Browsers : IsPrefix(SelectSeq(turn[c], IsStep), StepOrder)

\* a turn that persisted, loaded and invoked, and whose backend call then failed
C8_Witness ==
    \E c \in Browsers :
        /\ SelectSeq(turn[c], IsStep) = <<"persistUser", "loadHistory", "invokeBackend">>
        /\ "timeout" \in Range(turn[c])
        /\ \E i \in 1..Len(messages) : messages[i].role = "user" /\ messages[i].content = UserMessage

\* C10: a request the handler lets through is valid: its chat belongs to the
\* requesting session, its role is allowed, its content is neither empty nor
\* over-long, its model is named; so nothing is written and no backend call
\* is made for a request that fails validation.
WellFormed(c, req) ==
    /\ ~req.malformed
    /\ Owns(c, req.chat)
    /\ req.op = "append" => req.role \in Roles
    /\ req.op = "append" => ContentLen(req.content) \in 1..MaxContentLen
    /\ req.op = "chat" => req.model # ""

C10_RejectedBeforeEffects ==
    \A c \in Clients :
        srv[c].pc \in {"hm_touch", "oc_wait"} => WellFormed(c, srv[c].req)

\* =========================================================================
\*                        properties of the relays
\* =========================================================================
LineFrag(line) == line.frag
Concat(lines) == Flatten(SeqMap(LineFrag, lines))
IsObject(line) == line.kind \in {"rec", "err"}
StreamOver == reader.pc = "done" /\ relay.code = StatusOK

\* the caller was told of a completion: it met [DONE], or it was handed a
\* record with done=true
MarkerDelivered ==
    reader.sawDone \/ \E i \in 1..Len(reader.chunks) : reader.chunks[i].done

C5_EveryRecordDelivered ==
    StreamOver => reader.chunks = SelectSeq(src.lines, IsObject)

\* C9: a stream the relay has ended has a completion or error marker as its
\* last element: [DONE], a record with done=true, or an error object.
EndsWithMarker(out) ==
    /\ Len(out) >= 5
    /\ LET line == out[Len(out) - 2].l
       IN /\ SubSeq(out, Len(out) - 4, Len(out)) = Event(line)
          /\ line.kind = "DONE" \/ line.done \/ line.kind = "err"

C9_StreamEndsWithMarker ==
    relay.pc = "finished" /\ relay.code = StatusOK => EndsWithMarker(relay.out)

\* =========================================================================
\*                    properties of chats, messages, sessions
\* =========================================================================
MessagesOf(ms, chatID) == SelectSeq(ms, LAMBDA m : m.chat = chatID)

\* C11: a step of a handler that serves a session which does not own a chat
\* (deleteChat, updateChat, the INSERT and the UPDATE of handleMessages)
\* leaves that chat, its title, its updated_at and its messages as they were.
C11_ForeignChatUntouched ==
    [][\A c \in Clients, id \in DOMAIN chats :
          (/\ ~Owns(c, id)
           /\ RawDeleteChat(c) \/ RawUpdateChat(c) \/ HM_Insert(c) \/ HM_Touch(c))
              => /\ id \in DOMAIN chats'
                 /\ chats'[id] = chats[id]
                 /\ MessagesOf(messages', id) = MessagesOf(messages, id)]_vars

\* C12: a chat's updated_at never decreases, and the step that completes an
\* append leaves it at least as late as the created_at of the message
\* appended.
C12_UpdatedAtAdvances ==
    [][\A id \in DOMAIN chats \cap DOMAIN chats' :
          /\ chats'[id].updated_at >= chats[id].updated_at
          /\ \A c \in Clients :
                HM_Touch(c) /\ srv[c].req.chat = id
                    => chats'[id].updated_at >= srv[c].now]_vars

\* C13: every stored message belongs to a chat that exists: none survives
\* the deletion of its chat, none is stored for a chat id that names no chat.
C13_MessagesHaveChat ==
    \A i \in 1..Len(messages) : messages[i].chat \in DOMAIN chats

\* =========================================================================
\*                   more properties of the relays
\* =========================================================================
\* C14: a failure of the backend reaches the caller as an error: a call that
\* got no response is answered with an error status, a response with a
\* non-success status is passed on with that status, and in neither case does
\* the caller get status 200.
C14_BackendFailureIsError ==
    relay.code # 0 /\ relay.called # <<>> =>
        /\ src.status = 0 => relay.code = StatusBadGateway
        /\ src.status \notin {0, StatusOK} => relay.code = src.status
        /\ relay.code = StatusOK => src.status = StatusOK

\* C15: once the client has cancelled the stream, the relay stops: it takes
\* no further line from the backend and writes no further record.
C15_CancelStopsRelay ==
    [][reader.pc = "cancelled"
          => relay'.pos = relay.pos /\ relay'.out = relay.out]_vars

\* The backend API the specification names for an action type.
SameNamedOperation(actionType) == "/api/" \o actionType

\* C16: a request whose actionType is none of generate, chat, pull, delete
\* is answered 400 and no backend request is made for it; a request with one
\* of the four makes exactly one backend request, to the API of that name.
C16_DispatchByActionType ==
    relay.action # "none" =>
        IF relay.action \in {"generate", "chat", "pull", "delete"}
        THEN relay.called = <<SameNamedOperation(relay.action)>>
        ELSE relay.code = StatusBadRequest /\ relay.called = <<>> /\ src = IdleSrc

C16_Witness ==
    relay.action = "bogus" /\ relay.pc = "finished" /\ relay.code = StatusBadRequest

\* A step of an admin handler of client c: its request is accepted or
\* refused, or its backend call returns.
AdminStep(c) ==
    \/ RawAdmin(c)
    \/ srv[c].pc = "admin" /\ srv'[c].pc # "admin"

\* C17: a step of handleModels, handlePull or handleDelete, whether the
\* backend succeeds or fails, changes neither the set of chats, nor any
\* chat's row (its updated_at included), nor the messages.
C17_AdminBypassesStore ==
    [][(\E c \in Clients : AdminStep(c)) => chats' = chats /\ messages' = messages]_vars

C17_Witness ==
    \E c \in Clients :
        /\ srv[c].pc = "admin"
        /\ chats # <<>>
        /\ messages # <<>>

\* C18: only the append of a message changes the updated_at of an existing
\* chat; renaming, listing and loading leave it as it was.
C18_OnlyAppendAdvances ==
    [][\A id \in DOMAIN chats \cap DOMAIN chats' :
          chats'[id].updated_at # chats[id].updated_at
              => \E c \in Clients : HM_Touch(c) /\ srv[c].req.chat = id]_vars

\* C19: a message that is stored stays as it was written: no step changes
\* its role, content, chat id or created_at, removes it, or changes the set
\* of files attached to it.
C19_MessageImmutable ==
    [][\A i \in 1..Len(messages) :
          /\ \E j \in 1..Len(messages') : messages'[j] = messages[i]
          /\ FilesIn(files', messages[i].id) = FilesIn(files, messages[i].id)]_vars

\* C20: a session that was issued stays: no step removes it from the
\* sessions, and no request that carries it is answered 401.
C20_SessionAlwaysAuthenticates ==
    [][/\ sessions \subseteq sessions'
       /\ \A c \in Clients :
             (cli[c].session \in sessions /\ cli'[c].resp # cli[c].resp)
                 => cli'[c].resp.code # StatusUnauthorized]_vars

\* C21: one client action makes at most one request to the backend, however
\* the backend fails: no connection error, error status, unparsable line or
\* early close leads to a second request.
C21_SingleAttempt == Len(relay.called) <= 1

C21_Witness ==
    /\ relay.pc = "finished"
    /\ Len(relay.called) = 1
    /\ \/ relay.code = StatusBadGateway
       \/ relay.code = StatusNotFound
       \/ src.closed /\ ~SentDone /\ relay.code = StatusOK

\* C22: an answered GET /api/chats lists exactly the chats of the requesting
\* session, each once, most recently updated first.
C22_ListChatsOwnSorted ==
    [][\A c \in Clients :
          RawListChats(c) /\ cli'[c].resp.code = StatusOK =>
              LET rows == cli'[c].resp.rows
              IN /\ {rows[i].id : i \in 1..Len(rows)}
                       = {k \in DOMAIN chats : chats[k].session = cli[c].session}
                 /\ \A i, j \in 1..Len(rows) : i # j => rows[i].id # rows[j].id
                 /\ \A i \in 1..Len(rows) :
                       /\ rows[i].updated_at = chats[rows[i].id].updated_at
                       /\ rows[i].title = chats[rows[i].id].title
                 /\ \A i, j \in 1..Len(rows) :
                       i < j => rows[i].updated_at >= rows[j].updated_at]_vars

C22_Witness ==
    \E c \in Clients :
        /\ cli[c].resp.code = StatusOK
        /\ Len(cli[c].resp.rows) = 2
        /\ cli[c].resp.rows[1].updated_at > cli[c].resp.rows[2].updated_at
        /\ cli[c].resp.rows[1].id < cli[c].resp.rows[2].id

\* C23: every stored message has the role user, assistant or system; an
\* append with another role is refused before its handler stores anything.
C23_RolesValid ==
    /\ \A i \in 1..Len(messages) : messages[i].role \in {"user", "assistant", "system"}
    /\ \A c \in Clients :
          srv[c].pc \in {"hm_now", "hm_insert", "hm_touch"}
              => srv[c].req.role \in {"user", "assistant", "system"}

C23_Witness ==
    /\ Len(messages) = MaxMsgs
    /\ \E c \in Clients :
          /\ cli[c].resp.code = StatusBadRequest
          /\ Authenticated(c)

\* =========================================================================
\*                    properties of the pages' chat
\* =========================================================================
\* C24: the list sent for a turn is the user and assistant messages of the
\* earlier turns followed by the new user message, and the history holds no
\* assistant entry without text: a turn that failed or returned nothing adds
\* none.
C24_HistoryOfTurns ==
    /\ \A i \in 1..Len(page.history) :
          page.history[i].role = "assistant" => page.history[i].content # <<>>
    /\ page.pc = "stream" =>
          /\ Last(page.sent) = UserMsg
          /\ \A i \in 1..Len(page.sent) :
                page.sent[i].role = "assistant" => page.sent[i].content # <<>>

\* C25: with a system prompt set, every chat request starts with the system
\* message, in the first turn and in every later one.
C25_SystemPromptEveryTurn ==
    page.sys /\ page.pc = "stream" => page.sent[1] = SystemMsg

\* =========================================================================
\*                 more properties of a chat turn and the streams
\* =========================================================================
\* C26: the context built for a chat turn whose user message was persisted
\* before is the chat's persisted messages, oldest first, ending with that
\* user message, which is in it once: it has as many entries as the chat has
\* rows.
C26_ContextHasTurnOnce ==
    [][\A c \in Clients :
          (OC_Query(c) /\ InTurn(c) /\ "persistUser" \in Range(turn[c])) =>
              /\ Last(srv'[c].msgs) = [role |-> "user", content |-> srv[c].req.content]
              /\ Len(srv'[c].msgs) = Cardinality(ChatRows(srv[c].req.chat))]_vars

\* C27: however the bytes of a stream are split into reads, the text
\* accumulated from it is the same: the fragments of its records, in order
\* (no record that was cut by the end of a read is lost or parsed in pieces).
C27_SplitIndependent ==
    reader.pc = "ns_done" => reader.text = Concat(src.lines)

\* C28: a streaming handler passes the backend's records on as it reads
\* them: when the backend answers a chat request with a stream (status 200),
\* the handler's answer to its client is that stream, status 200, not an
\* answer made after the stream was dropped.
C28_RecordsPassedAsRead ==
    [][\A c \in Browsers :
          (turn'[c] # turn[c] /\ turn'[c] # <<>> /\ Last(turn'[c]) = "backend200")
              => cli'[c].resp.code = StatusOK]_vars

\* C29: a record with done=true is the last one: the relay reads no line of
\* the source after it, and the reader is handed no record after it, so
\* whatever follows it in the source changes neither the client's stream nor
\* the accumulated text.
C29_DoneIsTerminal ==
    /\ \A i \in 1..(relay.pos - 1) : ~src.lines[i].done
    /\ \A i \in 1..(Len(reader.chunks) - 1) : ~reader.chunks[i].done

\* C30: a relay whose write to the client failed, the client being gone,
\* attempts no further write to it: at most one write fails.
C30_StopsAfterFailedWrite == relay.failed <= 1

\* C31: a pull streams progress: while nothing of a pull's response has been
\* written to the client, the relay holds at most one progress record that
\* it has read from the backend, so that each record is forwarded before the
\* next one is taken and not only once the backend's response has ended.
C31_PullStreamsProgress ==
    (relay.action = "pull" /\ relay.out = <<>>) => relay.pos <= 1

C33_NoInterference ==
    [][/\ \A c \in Clients :
             (RateLimitedListChats(c) /\ Authenticated(c)) =>
                 LET s == cli[c].session
                     own == [k \in DOMAIN requests \cap {s} |-> requests[k]]
                 IN /\ (cli'[c].resp.code # StatusTooManyRequests)
                           <=> AllowReturns(own, s, clock)
                    /\ \A k \in (sessions \cup DOMAIN requests \cup DOMAIN requests') \ {s} :
                          /\ k \in DOMAIN requests <=> k \in DOMAIN requests'
                          /\ k \in DOMAIN requests => requests'[k] = requests[k]
       /\ cleanup =>
             \A k \in sessions, t \in clock..(MaxNow + 1) :
                 /\ AllowReturns(requests', k, t) = AllowReturns(requests, k, t)
                 /\ AllowUpdate(requests', k, t)[k] = AllowUpdate(requests, k, t)[k]]_vars

C33_Witness ==
    \E c1, c2 \in Clients :
        /\ cli[c1].session # cli[c2].session
        /\ cli[c1].resp.code = StatusTooManyRequests
        /\ cli[c1].session \in DOMAIN requests
        /\ requests[cli[c1].session].count = RateLimit
        /\ cli[c2].resp.code = StatusOK
        /\ cli[c2].session \notin DOMAIN requests

\* C35: the rate limiter lets at most 60 requests of a key through in one
\* window: within a window a call of Allow is let through exactly when fewer
\* than 60 were, and it is then counted; a call that is refused is answered
\* 429 without the handler being run; the stored count never exceeds 60; the
\* first call after the reset time is let through and opens a window with
\* count 1.
C35_AtMostSixtyPerWindow ==
    [][\A c \in Clients :
          (RateLimitedListChats(c) /\ Authenticated(c)) =>
              LET k == cli[c].session
                  open == k \in DOMAIN requests /\ clock <= requests[k].resetTime
                  allowed == cli'[c].resp.code # StatusTooManyRequests
              IN /\ k \in DOMAIN requests'
                 /\ requests'[k].count <= RateLimit
                 /\ open => /\ allowed <=> requests[k].count < RateLimit
                            /\ requests'[k].resetTime = requests[k].resetTime
                            /\ requests'[k].count =
                                  requests[k].count + (IF allowed THEN 1 ELSE 0)
                 /\ ~open => /\ allowed
                             /\ requests'[k] = [count |-> 1,
                                                resetTime |-> clock + MinuteTicks]
                 /\ ~allowed => cli'[c].resp = ErrorResp(StatusTooManyRequests, "withRateLimit")
                 /\ allowed => cli'[c].resp.code \in {StatusOK, StatusInternalServerError}]_vars

C35_Witness ==
    \E c \in Clients :
        /\ cli[c].session \in DOMAIN requests
        /\ requests[cli[c].session].count = RateLimit
        /\ clock <= requests[cli[c].session].resetTime
        /\ cli[c].resp.code = StatusTooManyRequests

\* =========================================================================
\*                   properties of the recommender
\* =========================================================================
\* C34: an answered recommendation request lists exactly the models of the
\* database that fit: a model is listed if and only if its minimum VRAM and
\* RAM are at most the given ones and the task filter is empty or one of the
\* model's tasks contains the lower-cased filter; each such model is listed
\* once, and nothing else is.
Fits(model) ==
    /\ model.minVRAM <= rec.vram
    /\ model.minRAM <= rec.ram
    /\ \/ rec.task = <<>>
       \/ \E i \in 1..Len(model.tasks) : Contains(model.tasks[i], ToLower(rec.task))

C34_RecommendsExactlyFitting ==
    rec.code = StatusOK =>
        /\ \A model \in rec.db :
              Cardinality({i \in 1..Len(rec.results) : rec.results[i] = model})
                  = IF Fits(model) THEN 1 ELSE 0
        /\ \A i \in 1..Len(rec.results) : rec.results[i] \in rec.db

C34_Witness ==
    /\ rec.code = StatusOK
    /\ rec.task = <<"C", "O", "D", "E">>
    /\ rec.db = KnownModels
    /\ Len(rec.results) = 2
    /\ \E model \in rec.db : model.minVRAM <= rec.vram /\ ~Fits(model)

\* =========================================================================
\*                   properties of the middleware
\* =========================================================================
\* A request of client c to a route that main wraps in withAuth.
ProtectedRequest(c) ==
    \/ NewChat(c)
    \/ RawListChats(c)
    \/ RawGetChat(c)
    \/ RawDeleteChat(c)
    \/ RawUpdateChat(c)
    \/ RawAppend(c)
    \/ RawUpload(c)
    \/ RawChat(c)
    \/ RawAdmin(c) /\ srv'[c].req.op # "models"

\* C36: no protected handler runs without a valid session: a request to a
\* route behind withAuth that carries no session id, or one that names no
\* session, is answered 401; no handler is started for it, nothing is
\* written to the store and no backend call is made.
C36_NoHandlerWithoutSession ==
    [][\A c \in Clients :
          (cli[c].session \notin sessions /\ ProtectedRequest(c))
              => /\ cli'[c].resp.code = StatusUnauthorized
                 /\ UNCHANGED <<srv, bk, sessions, chats, messages, files, made,
                                nextAcc, log, requests>>]_vars

C36_Witness ==
    \E c \in Clients :
        /\ cli[c].session = BogusSession
        /\ cli[c].resp.code = StatusUnauthorized
        /\ chats # <<>>
        /\ messages # <<>>

\* =========================================================================
\*                   properties of the tab's send guard
\* =========================================================================
\* C37: the isGenerating guard admits one chat turn at a time: at most one
\* call of sendMessage is between the post of its user message and its
\* finally block, and when no call is under way isGenerating is false.
C37_OneTurnAtATime ==
    /\ Cardinality({i \in Sends :
            tab.calls[i] \in {"persist", "load", "chat", "read", "save", "reload"}}) <= 1
    /\ (\A i \in Sends : tab.calls[i] \in {"none", "refused", "done"}) => ~tab.gen

\* =========================================================================
\*                   properties of the chats' titles
\* =========================================================================
\* C38: every stored chat has a title that is not empty and has at most 200
\* characters.
C38_TitlesBounded ==
    \A k \in DOMAIN chats :
        /\ chats[k].title # ""
        /\ TitleLen(chats[k].title) <= MaxTitleLen

====
